---------------------------- MODULE Spec2Model ----------------------------
(* A model of the maintenance-log question-answering assistant:            *)
(* ingestion (src/src/data.py), the aggregation engine                     *)
(* (src/src/analytics.py), the filter extractor and intent classifier      *)
(* (src/src/app.py) and the orchestrators (src/src/webapp.py, the CLI loop *)
(* of src/src/app.py).                                                     *)
(*                                                                         *)
(* A Python str is a sequence of one-character strings; None is the empty  *)
(* tuple and a present Optional value v is <<v>>.  A timestamp is an       *)
(* integer (a month index where calendar months matter).                   *)
EXTENDS Integers, Sequences, FiniteSets, TLC

VARIABLES
    events,       \* the raw event rows read so far (data.load_events)
    work_orders,  \* the incident table (data.build_work_orders)
    app,          \* the globals an orchestrator module makes at startup
    call,         \* the last library call: function, arguments, result
    pc            \* position of the process

vars == <<events, work_orders, app, call, pc>>

-----------------------------------------------------------------------------
(* Bounds of the model *)

MaxRowsF == 2
MaxRowsA == 3
MaxN == 2
MaxRowsM == 2
MaxKw == 2
MaxRowsT == 2
MaxEvents == 3
MaxFragsI == 2
MaxScopes == 1
MaxFragsX == 2

-----------------------------------------------------------------------------
(* Python str *)

Range(s) == {s[i] : i \in 1..Len(s)}

\* the characters of the model in code-point order
CodeOrder ==
    <<"\n", " ", "\"", "'", "-", ".",
      "0", "1", "2", "3", "4", "5", "6", "7", "8", "9",
      "A", "B", "C", "D", "E", "F", "G", "H", "I", "J", "K", "L", "M",
      "N", "O", "P", "Q", "R", "S", "T", "U", "V", "W", "X", "Y", "Z",
      "_",
      "a", "b", "c", "d", "e", "f", "g", "h", "i", "j", "k", "l", "m",
      "n", "o", "p", "q", "r", "s", "t", "u", "v", "w", "x", "y", "z">>

Ord == [c \in Range(CodeOrder) |-> CHOOSE i \in 1..Len(CodeOrder) : CodeOrder[i] = c]

\* str.__lt__: lexicographic by code point
RECURSIVE StrLess(_, _)
StrLess(a, b) ==
    IF b = <<>> THEN FALSE
    ELSE IF a = <<>> THEN TRUE
    ELSE IF a[1] # b[1] THEN Ord[a[1]] < Ord[b[1]]
    ELSE StrLess(Tail(a), Tail(b))

\* str.lower() of one character
LowerChar(c) ==
    IF c \in DOMAIN Ord /\ Ord[c] >= Ord["A"] /\ Ord[c] <= Ord["Z"]
    THEN CodeOrder[Ord[c] + (Ord["a"] - Ord["A"])]
    ELSE c

\* str.lower()
Lower(s) == [i \in 1..Len(s) |-> LowerChar(s[i])]

\* the whitespace characters of the model
IsSpace(c) == c \in {" ", "\n"}

\* str.strip()
Strip(s) ==
    LET inked == {i \in 1..Len(s) : ~IsSpace(s[i])}
        first == CHOOSE i \in inked : \A j \in inked : i <= j
        last  == CHOOSE i \in inked : \A j \in inked : j <= i
    IN  IF inked = {} THEN <<>> ELSE SubSeq(s, first, last)

\* sub in s (str.__contains__)
Contains(sub, s) ==
    \E i \in 0..(Len(s) - Len(sub)) : SubSeq(s, i + 1, i + Len(sub)) = sub

\* s.startswith(prefix)
StartsWith(s, prefix) ==
    Len(prefix) <= Len(s) /\ SubSeq(s, 1, Len(prefix)) = prefix

-----------------------------------------------------------------------------
(* re: the patterns count_mentions builds.  A pattern is a str; a backslash *)
(* makes the next character a literal, an unescaped "." matches any         *)
(* character but a newline, every other character matches itself.          *)

\* the characters of the model that re.escape puts a backslash before
ReSpecial == {".", " ", "\n", "-"}

\* re.escape(s)
RECURSIVE re_escape(_)
re_escape(s) ==
    IF s = <<>> THEN <<>>
    ELSE (IF s[1] \in ReSpecial THEN <<"\\", s[1]>> ELSE <<s[1]>>) \o re_escape(Tail(s))

\* pattern pat matches a prefix of s
RECURSIVE ReMatchHere(_, _)
ReMatchHere(pat, s) ==
    IF pat = <<>> THEN TRUE
    ELSE IF pat[1] = "\\" /\ Len(pat) >= 2
         THEN s # <<>> /\ s[1] = pat[2] /\ ReMatchHere(Tail(Tail(pat)), Tail(s))
    ELSE IF pat[1] = "."
         THEN s # <<>> /\ s[1] # "\n" /\ ReMatchHere(Tail(pat), Tail(s))
    ELSE s # <<>> /\ s[1] = pat[1] /\ ReMatchHere(Tail(pat), Tail(s))

\* re.search(pat, s) is not None (Series.str.contains(pat, regex=True))
re_search(pat, s) == \E i \in 0..Len(s) : ReMatchHere(pat, SubSeq(s, i + 1, Len(s)))

-----------------------------------------------------------------------------
(* analytics.Filters and filter_work_orders *)

None == <<>>
Some(v) == <<v>>

\* bool(x) of an Optional[str]: None and "" are falsy
Truthy(o) == o # None /\ o[1] # <<>>

NoFilters ==
    [equipment_id |-> None, product_line |-> None, symptom_code |-> None,
     start_ts_min |-> None, start_ts_max |-> None]

\* mutant: start_ts_max taken as an inclusive bound
filter_work_orders_max_inclusive(wo, f) ==
    LET Eq(r)  == r.equipment_id = f.equipment_id[1]
        Pl(r)  == r.product_line = f.product_line[1]
        Sym(r) == r.symptom_code = f.symptom_code[1]
        Min(r) == r.start_ts >= f.start_ts_min[1]
        Max(r) == r.start_ts <= f.start_ts_max[1]
        df1 == IF Truthy(f.equipment_id) THEN SelectSeq(wo, Eq) ELSE wo
        df2 == IF Truthy(f.product_line) THEN SelectSeq(df1, Pl) ELSE df1
        df3 == IF Truthy(f.symptom_code) THEN SelectSeq(df2, Sym) ELSE df2
        df4 == IF f.start_ts_min # None THEN SelectSeq(df3, Min) ELSE df3
        df5 == IF f.start_ts_max # None THEN SelectSeq(df4, Max) ELSE df4
    IN  df5

\* mutant: the symptom filter selects from the whole table, not from df
filter_work_orders_restart(wo, f) ==
    LET Eq(r)  == r.equipment_id = f.equipment_id[1]
        Pl(r)  == r.product_line = f.product_line[1]
        Sym(r) == r.symptom_code = f.symptom_code[1]
        Min(r) == r.start_ts >= f.start_ts_min[1]
        Max(r) == r.start_ts < f.start_ts_max[1]
        df1 == IF Truthy(f.equipment_id) THEN SelectSeq(wo, Eq) ELSE wo
        df2 == IF Truthy(f.product_line) THEN SelectSeq(df1, Pl) ELSE df1
        df3 == IF Truthy(f.symptom_code) THEN SelectSeq(wo, Sym) ELSE df2
        df4 == IF f.start_ts_min # None THEN SelectSeq(df3, Min) ELSE df3
        df5 == IF f.start_ts_max # None THEN SelectSeq(df4, Max) ELSE df4
    IN  df5

filter_work_orders(wo, f) ==
    LET Eq(r)  == r.equipment_id = f.equipment_id[1]
        Pl(r)  == r.product_line = f.product_line[1]
        Sym(r) == r.symptom_code = f.symptom_code[1]
        Min(r) == r.start_ts >= f.start_ts_min[1]
        Max(r) == r.start_ts < f.start_ts_max[1]
        df1 == IF Truthy(f.equipment_id) THEN SelectSeq(wo, Eq) ELSE wo
        df2 == IF Truthy(f.product_line) THEN SelectSeq(df1, Pl) ELSE df1
        df3 == IF Truthy(f.symptom_code) THEN SelectSeq(df2, Sym) ELSE df2
        df4 == IF f.start_ts_min # None THEN SelectSeq(df3, Min) ELSE df3
        df5 == IF f.start_ts_max # None THEN SelectSeq(df4, Max) ELSE df4
    IN  df5

count_incidents(wo, f) == Len(filter_work_orders(wo, f))

\* DataFrame.head(n), n >= 0
Head_n(s, n) == SubSeq(s, 1, IF n < Len(s) THEN n ELSE Len(s))

\* the number of rows of df whose column col is k
SizeOf(df, col, k) == Cardinality({i \in 1..Len(df) : df[i][col] = k})

\* groupby(col).size().reset_index(): one <<value, count>> per distinct value
GroupSizes(df, col) ==
    {<<k, SizeOf(df, col, k)>> : k \in {df[i][col] : i \in 1..Len(df)}}

\* the rows of a set of <<value, count>> pairs, in some order, before a sort
RowsOf(pairs) ==
    CHOOSE q \in [1..Cardinality(pairs) -> pairs] :
        \A i, j \in 1..Cardinality(pairs) : i # j => q[i] # q[j]

\* sort_values([count, key], ascending=[False, True])
CountDescKeyAsc(a, b) == a[2] > b[2] \/ (a[2] = b[2] /\ StrLess(a[1], b[1]))

\* mutant: sort_values([count, key], ascending=[False, False])
CountDescKeyDesc(a, b) == a[2] > b[2] \/ (a[2] = b[2] /\ StrLess(b[1], a[1]))

\* mutant: ties between equipment ids broken in descending id order
top_equipment_ties_desc(wo, n, f) ==
    LET df == filter_work_orders(wo, f)
        out == Head_n(SortSeq(RowsOf(GroupSizes(df, "equipment_id")), CountDescKeyDesc), n)
    IN  [i \in 1..Len(out) |->
            [equipment_id |-> out[i][1], work_order_count |-> out[i][2]]]

top_equipment(wo, n, f) ==
    LET df == filter_work_orders(wo, f)
        out == Head_n(SortSeq(RowsOf(GroupSizes(df, "equipment_id")), CountDescKeyAsc), n)
    IN  IF df = <<>> THEN <<>>
        ELSE [i \in 1..Len(out) |->
                 [equipment_id |-> out[i][1], work_order_count |-> out[i][2]]]

top_symptoms(wo, n, f) ==
    LET df == filter_work_orders(wo, f)
        out == Head_n(SortSeq(RowsOf(GroupSizes(df, "symptom_code")), CountDescKeyAsc), n)
    IN  IF df = <<>> THEN <<>>
        ELSE [i \in 1..Len(out) |->
                 [symptom_code |-> out[i][1], work_order_count |-> out[i][2]]]

\* Series.value_counts(): <<value, count>> by count descending
CountDesc(a, b) == a[2] > b[2]
value_counts(df, col) == SortSeq(RowsOf(GroupSizes(df, col)), CountDesc)

\* list.sort(key=lambda x: x[0])
KeyAsc(a, b) == StrLess(a[1], b[1])

\* mutant: only the first entry of value_counts is returned
most_common_symptoms_first_only(wo, f) ==
    LET df == filter_work_orders(wo, f)
        vc == value_counts(df, "symptom_code")
    IN  IF df = <<>> THEN <<>> ELSE <<vc[1]>>

most_common_symptoms(wo, f) ==
    LET df == filter_work_orders(wo, f)
        vc == value_counts(df, "symptom_code")
        max_count == vc[1][2]
        IsTied(p) == p[2] = max_count
        tied == SelectSeq(vc, IsTied)
    IN  IF df = <<>> THEN <<>>
        ELSE IF vc = <<>> THEN <<>>
        ELSE SortSeq(tied, KeyAsc)

\* the text count_mentions searches: description, a newline, comments
Haystack(r) == Lower(r.description \o <<"\n">> \o r.comments)

\* mutant: the keyword is used as a pattern without re.escape
count_mentions_unescaped(wo, keyword, f) ==
    LET kw == Lower(Strip(keyword))
        df == filter_work_orders(wo, f)
    IN  IF kw = <<>> THEN 0
        ELSE IF df = <<>> THEN 0
        ELSE Cardinality({i \in 1..Len(df) : re_search(kw, Haystack(df[i]))})

count_mentions(wo, keyword, f) ==
    LET kw == Lower(Strip(keyword))
        df == filter_work_orders(wo, f)
    IN  IF kw = <<>> THEN 0
        ELSE IF df = <<>> THEN 0
        ELSE Cardinality({i \in 1..Len(df) : re_search(re_escape(kw), Haystack(df[i]))})

\* df[["work_order_id", "technicians"]].explode("technicians"), NaN dropped,
\* names stripped, "" dropped: the <<technician, row index>> pairs
Exploded(df) ==
    LET cells == UNION {{<<Strip(df[i].technicians[k]), i>> :
                            k \in 1..Len(df[i].technicians)} : i \in 1..Len(df)}
    IN  {p \in cells : p[1] # <<>>}

\* groupby("technicians")["work_order_id"].nunique()
DistinctWorkOrders(df, t) ==
    Cardinality({df[p[2]].work_order_id : p \in {q \in Exploded(df) : q[1] = t}})

\* the sum of n_updates over the exploded rows of technician t
UpdatesOf(df, t) ==
    LET rows == {p[2] : p \in {q \in Exploded(df) : q[1] = t}}
        RECURSIVE Sum(_)
        Sum(I) == IF I = {} THEN 0
                  ELSE LET i == CHOOSE x \in I : TRUE
                       IN  df[i].n_updates + Sum(I \ {i})
    IN  Sum(rows)

\* mutant: technicians ranked by their number of updates (raw event count)
top_technicians_by_updates(wo, n, f) ==
    LET df == filter_work_orders(wo, f)
        names == {p[1] : p \in Exploded(df)}
        counts == {<<t, UpdatesOf(df, t)>> : t \in names}
        out == Head_n(SortSeq(RowsOf(counts), CountDescKeyAsc), n)
    IN  [i \in 1..Len(out) |->
            [technician |-> out[i][1], work_order_count |-> out[i][2]]]

top_technicians(wo, n, f) ==
    LET df == filter_work_orders(wo, f)
        names == {p[1] : p \in Exploded(df)}
        counts == {<<t, DistinctWorkOrders(df, t)>> : t \in names}
        out == Head_n(SortSeq(RowsOf(counts), CountDescKeyAsc), n)
    IN  IF df = <<>> THEN <<>>
        ELSE [i \in 1..Len(out) |->
                 [technician |-> out[i][1], work_order_count |-> out[i][2]]]

count_distinct_technicians(wo, f) ==
    LET df == filter_work_orders(wo, f)
    IN  IF df = <<>> THEN 0 ELSE Cardinality({p[1] : p \in Exploded(df)})

count_distinct_equipment(wo, f) ==
    LET df == filter_work_orders(wo, f)
    IN  IF df = <<>> THEN 0
        ELSE Cardinality({df[i].equipment_id : i \in 1..Len(df)})

-----------------------------------------------------------------------------
(* The incident table: one row per work order, work_order_id unique and    *)
(* ascending (the groupby of build_work_orders sorts its keys).            *)

E1 == <<"E", "1">>
E2 == <<"E", "2">>
P1 == <<"P", "1">>
P2 == <<"P", "2">>
S1 == <<"S", "1">>
S2 == <<"S", "2">>

Row(id, eq, pl, sym, ts, desc, techs, comments, n) ==
    [work_order_id |-> id, equipment_id |-> eq, product_line |-> pl,
     symptom_code |-> sym, description |-> desc, start_ts |-> ts, end_ts |-> ts,
     technicians |-> techs, comments |-> comments, n_updates |-> n]

\* the tables of at most n rows whose rows, apart from the id, come from kinds
RECURSIVE TablesOf(_, _)
TablesOf(kinds, n) ==
    IF n = 0 THEN {<<>>}
    ELSE LET shorter == TablesOf(kinds, n - 1)
         IN  shorter \cup
             {Append(t, [k EXCEPT !.work_order_id = Len(t) + 1]) :
                 t \in {u \in shorter : Len(u) = n - 1}, k \in kinds}

\* no orchestrator module is loaded
NoApp ==
    [front |-> "none", known_equipment |-> <<>>, known_product_lines |-> <<>>,
     known_symptoms |-> <<>>, default_year |-> 0, USE_LLM |-> FALSE]

NoCall ==
    [fn |-> "none", f |-> NoFilters, n |-> 0, keyword |-> <<>>, result |-> <<>>]

Ids(df) == {df[i].work_order_id : i \in 1..Len(df)}

-----------------------------------------------------------------------------
(* SpecFilter: filter_work_orders and count_incidents applied to every     *)
(* table and Filters of the bounded domain.                                *)

KindsF ==
    {Row(0, eq, pl, sym, ts, <<>>, <<>>, <<>>, 1) :
        eq \in {E1, E2}, pl \in {P1, P2}, sym \in {S1, S2}, ts \in {1, 2}}

FiltersF ==
    [equipment_id : {None, Some(<<>>), Some(E1)},
     product_line : {None, Some(<<>>), Some(P1)},
     symptom_code : {None, Some(S1)},
     start_ts_min : {None, Some(1), Some(2)},
     start_ts_max : {None, Some(2)}]

InitFilter ==
    /\ events = <<>>
    /\ work_orders \in TablesOf(KindsF, MaxRowsF)
    /\ app = NoApp
    /\ call = NoCall
    /\ pc = "ready"

CallFilterWorkOrders ==
    /\ pc = "ready"
    /\ \E f \in FiltersF :
          call' = [fn |-> "filter_work_orders", f |-> f, n |-> 0, keyword |-> <<>>,
                   result |-> filter_work_orders(work_orders, f)]
    /\ pc' = "returned"
    /\ UNCHANGED <<events, work_orders, app>>

CallCountIncidents ==
    /\ pc = "ready"
    /\ \E f \in FiltersF :
          call' = [fn |-> "count_incidents", f |-> f, n |-> 0, keyword |-> <<>>,
                   result |-> count_incidents(work_orders, f)]
    /\ pc' = "returned"
    /\ UNCHANGED <<events, work_orders, app>>

\* the caller takes the result and is ready for its next call
Return ==
    /\ pc = "returned"
    /\ pc' = "ready"
    /\ call' = NoCall
    /\ UNCHANGED <<events, work_orders, app>>

NextFilter == CallFilterWorkOrders \/ CallCountIncidents \/ Return

SpecFilter == InitFilter /\ [][NextFilter]_vars

\* a str field of a Filters constrains when it is neither None nor ""
Constrains(o) == o # None /\ o # Some(<<>>)

\* row r satisfies every field of f that Populated says is populated
Satisfies(r, f, Populated(_)) ==
    /\ Populated(f.equipment_id) => r.equipment_id = f.equipment_id[1]
    /\ Populated(f.product_line) => r.product_line = f.product_line[1]
    /\ Populated(f.symptom_code) => r.symptom_code = f.symptom_code[1]
    /\ f.start_ts_min # None => r.start_ts >= f.start_ts_min[1]
    /\ f.start_ts_max # None => r.start_ts < f.start_ts_max[1]

IsPresent(o) == o # None

\* df holds, in table order, exactly the rows of wo that satisfy P
ExactlyRows(df, wo, P(_)) ==
    /\ Range(df) = {r \in Range(wo) : P(r)}
    /\ Len(df) = Cardinality(Range(df))
    /\ \A i, j \in 1..Len(df) : i < j => df[i].work_order_id < df[j].work_order_id

\* C2 as stated: filter_work_orders returns exactly the incidents that satisfy
\* every field of the Filters that is present (not None), the str fields by
\* equality, start_ts_min inclusive, start_ts_max exclusive.
C2_Original ==
    call.fn = "filter_work_orders" =>
        LET P(r) == Satisfies(r, call.f, IsPresent)
        IN  ExactlyRows(call.result, work_orders, P)

\* C2 amended: filter_work_orders returns exactly the incidents that satisfy
\* every field of the Filters that is present and, for the three str fields,
\* not the empty string (an empty-string field places no constraint, like an
\* absent one); the all-open Filters returns the whole table.
C2_FilterExact ==
    call.fn = "filter_work_orders" =>
        LET P(r) == Satisfies(r, call.f, Constrains)
        IN  /\ ExactlyRows(call.result, work_orders, P)
            /\ call.f = NoFilters => call.result = work_orders

C2_Witness ==
    /\ call.fn = "filter_work_orders"
    /\ call.f.equipment_id = Some(E1)
    /\ call.f.product_line = Some(<<>>)
    /\ call.f.start_ts_min = Some(2)
    /\ Len(call.result) = 1
    /\ Len(work_orders) = 2

\* G populates every field F populates with the same value, and tightens or
\* adds others
Narrows(G, F) ==
    /\ F.equipment_id # None => G.equipment_id = F.equipment_id
    /\ F.product_line # None => G.product_line = F.product_line
    /\ F.symptom_code # None => G.symptom_code = F.symptom_code
    /\ F.start_ts_min # None =>
          G.start_ts_min # None /\ G.start_ts_min[1] >= F.start_ts_min[1]
    /\ F.start_ts_max # None =>
          G.start_ts_max # None /\ G.start_ts_max[1] <= F.start_ts_max[1]

\* C3: filter monotonicity.  The ids returned under a Filters G are among the
\* ids returned under every Filters F that G narrows, and count_incidents
\* under G is at most count_incidents under F.
C3_Monotone ==
    /\ call.fn = "filter_work_orders" =>
          \A F \in FiltersF :
              Narrows(call.f, F) =>
                  Ids(call.result) \subseteq Ids(filter_work_orders(work_orders, F))
    /\ call.fn = "count_incidents" =>
          \A F \in FiltersF :
              Narrows(call.f, F) => call.result <= count_incidents(work_orders, F)

C3_Witness ==
    /\ call.fn = "filter_work_orders"
    /\ call.f.equipment_id = Some(E1)
    /\ call.f.start_ts_min = Some(2)
    /\ Len(call.result) = 1
    /\ LET F == [call.f EXCEPT !.equipment_id = None, !.start_ts_min = Some(1)]
       IN  Len(filter_work_orders(work_orders, F)) = 2

-----------------------------------------------------------------------------
(* SpecAgg: top_equipment, top_symptoms and most_common_symptoms applied   *)
(* to every table, Filters and n of the bounded domain.                    *)

KindsA ==
    {Row(0, eq, pl, sym, 1, <<>>, <<>>, <<>>, 1) :
        eq \in {E1, E2}, pl \in {P1, P2}, sym \in {S1, S2}}

FiltersA == {NoFilters, [NoFilters EXCEPT !.product_line = Some(P1)]}

InitAgg ==
    /\ events = <<>>
    /\ work_orders \in TablesOf(KindsA, MaxRowsA)
    /\ app = NoApp
    /\ call = NoCall
    /\ pc = "ready"

CallTopEquipment ==
    /\ pc = "ready"
    /\ \E f \in FiltersA, n \in 0..MaxN :
          call' = [fn |-> "top_equipment", f |-> f, n |-> n, keyword |-> <<>>,
                   result |-> top_equipment(work_orders, n, f)]
    /\ pc' = "returned"
    /\ UNCHANGED <<events, work_orders, app>>

CallTopSymptoms ==
    /\ pc = "ready"
    /\ \E f \in FiltersA, n \in 0..MaxN :
          call' = [fn |-> "top_symptoms", f |-> f, n |-> n, keyword |-> <<>>,
                   result |-> top_symptoms(work_orders, n, f)]
    /\ pc' = "returned"
    /\ UNCHANGED <<events, work_orders, app>>

CallMostCommonSymptoms ==
    /\ pc = "ready"
    /\ \E f \in FiltersA :
          call' = [fn |-> "most_common_symptoms", f |-> f, n |-> 0, keyword |-> <<>>,
                   result |-> most_common_symptoms(work_orders, f)]
    /\ pc' = "returned"
    /\ UNCHANGED <<events, work_orders, app>>

NextAgg == CallTopEquipment \/ CallTopSymptoms \/ CallMostCommonSymptoms \/ Return

SpecAgg == InitAgg /\ [][NextAgg]_vars

\* the rows of the table that satisfy the Filters of the call
InScope(f) == {r \in Range(work_orders) : Satisfies(r, f, Constrains)}

\* how often symptom code c occurs among the rows of scope
Frequency(scope, c) == Cardinality({r \in scope : r.symptom_code = c})

\* C1: most_common_symptoms returns exactly the symptom codes whose frequency
\* in the filtered set is the maximum frequency, each paired with that count,
\* in alphabetical order of the code; the empty list when the filtered set is
\* empty.
C1_AllTied ==
    call.fn = "most_common_symptoms" =>
        LET scope == InScope(call.f)
            codes == {r.symptom_code : r \in scope}
            IsMax(c) == \A d \in codes : Frequency(scope, d) <= Frequency(scope, c)
            res == call.result
        IN  /\ scope = {} <=> res = <<>>
            /\ {res[i] : i \in 1..Len(res)} =
                  {<<c, Frequency(scope, c)>> : c \in {d \in codes : IsMax(d)}}
            /\ \A i, j \in 1..Len(res) : i < j => StrLess(res[i][1], res[j][1])

C1_Witness ==
    /\ call.fn = "most_common_symptoms"
    /\ call.f.product_line = Some(P1)
    /\ Len(work_orders) = 3
    /\ call.result = <<<<S1, 1>>, <<S2, 1>>>>

\* the <<value, count>> pairs of a top_equipment / top_symptoms result
PairsOf(fn, res) ==
    [i \in 1..Len(res) |->
        <<IF fn = "top_equipment" THEN res[i].equipment_id ELSE res[i].symptom_code,
          res[i].work_order_count>>]

\* C6: top_equipment(n) and top_symptoms(n) return the first n groups of the
\* filtered set by (row count descending, value ascending): every returned
\* row pairs a value with its row count, values with equal counts are in
\* ascending order, at most n rows are returned (all groups when there are at
\* most n), and no group left out has a higher count than a returned one, nor
\* an equal count with a smaller value.
C6_TopN ==
    call.fn \in {"top_equipment", "top_symptoms"} =>
        LET scope == InScope(call.f)
            ValueOf(r) == IF call.fn = "top_equipment" THEN r.equipment_id
                          ELSE r.symptom_code
            values == {ValueOf(r) : r \in scope}
            CountOf(v) == Cardinality({r \in scope : ValueOf(r) = v})
            res == PairsOf(call.fn, call.result)
            returned == {res[i][1] : i \in 1..Len(res)}
        IN  /\ Len(res) = (IF call.n < Cardinality(values) THEN call.n
                           ELSE Cardinality(values))
            /\ Cardinality(returned) = Len(res)
            /\ \A i \in 1..Len(res) :
                  res[i][1] \in values /\ res[i][2] = CountOf(res[i][1])
            /\ \A i, j \in 1..Len(res) :
                  i < j => \/ res[i][2] > res[j][2]
                           \/ res[i][2] = res[j][2] /\ StrLess(res[i][1], res[j][1])
            /\ \A v \in values \ returned : \A i \in 1..Len(res) :
                  \/ CountOf(v) < res[i][2]
                  \/ CountOf(v) = res[i][2] /\ StrLess(res[i][1], v)

C6_Witness ==
    /\ call.fn = "top_equipment"
    /\ call.n = 1
    /\ Len(work_orders) = 3
    /\ Len(call.result) = 1
    /\ call.result[1] = [equipment_id |-> E1, work_order_count |-> 1]
    /\ Cardinality({r \in InScope(call.f) : r.equipment_id = E2}) = 1

-----------------------------------------------------------------------------
(* SpecMentions: count_mentions applied to every table, keyword and        *)
(* Filters of the bounded domain.                                          *)

KindsM ==
    {Row(0, E1, pl, S1, 1, desc, <<>>, comments, 1) :
        pl \in {P1, P2},
        desc \in {<<"A", ".">>, <<"a", "b">>},
        comments \in {<<>>, <<"b", " ", "A">>}}

\* every str of at most n characters of alphabet
RECURSIVE StringsOf(_, _)
StringsOf(alphabet, n) ==
    IF n = 0 THEN {<<>>}
    ELSE LET shorter == StringsOf(alphabet, n - 1)
         IN  shorter \cup {Append(w, c) : w \in {u \in shorter : Len(u) = n - 1},
                                           c \in alphabet}

\* the keywords: the short strings of letters in both cases, a regular
\* expression metacharacter and a blank, and one keyword with a line break
KeywordsM == StringsOf({"a", "A", ".", " "}, MaxKw) \cup {<<".", "\n", "b">>}

InitMentions ==
    /\ events = <<>>
    /\ work_orders \in TablesOf(KindsM, MaxRowsM)
    /\ app = NoApp
    /\ call = NoCall
    /\ pc = "ready"

CallCountMentions ==
    /\ pc = "ready"
    /\ \E f \in FiltersA, kw \in KeywordsM :
          call' = [fn |-> "count_mentions", f |-> f, n |-> 0, keyword |-> kw,
                   result |-> count_mentions(work_orders, kw, f)]
    /\ pc' = "returned"
    /\ UNCHANGED <<events, work_orders, app>>

NextMentions == CallCountMentions \/ Return

SpecMentions == InitMentions /\ [][NextMentions]_vars

\* s contains sub when case is ignored, every character of sub taken literally
ContainsIgnoringCase(sub, s) ==
    \E i \in 0..(Len(s) - Len(sub)) :
        \A k \in 1..Len(sub) : LowerChar(s[i + k]) = LowerChar(sub[k])

Trimmed(kw) ==
    IF \A i \in 1..Len(kw) : IsSpace(kw[i]) THEN <<>>
    ELSE LET i == CHOOSE a \in 1..Len(kw) :
                      ~IsSpace(kw[a]) /\ \A b \in 1..(a - 1) : IsSpace(kw[b])
             j == CHOOSE a \in 1..Len(kw) :
                      ~IsSpace(kw[a]) /\ \A b \in (a + 1)..Len(kw) : IsSpace(kw[b])
         IN  [k \in 1..(j - i + 1) |-> kw[i + k - 1]]

-----------------------------------------------------------------------------
(* SpecTech: top_technicians and count_distinct_technicians applied to     *)
(* every table, Filters and n of the bounded domain.  The technicians of a *)
(* row are what build_work_orders makes them: sorted, distinct, non-blank. *)

Al == <<"A", "l">>
Bo == <<"B", "o">>

KindsT ==
    {Row(0, E1, pl, S1, 1, <<>>, techs, <<>>, n) :
        pl \in {P1, P2}, techs \in {<<>>, <<Al>>, <<Bo>>, <<Al, Bo>>}, n \in {1, 2}}

InitTech ==
    /\ events = <<>>
    /\ work_orders \in TablesOf(KindsT, MaxRowsT)
    /\ app = NoApp
    /\ call = NoCall
    /\ pc = "ready"

CallTopTechnicians ==
    /\ pc = "ready"
    /\ \E f \in FiltersA, n \in 0..MaxN :
          call' = [fn |-> "top_technicians", f |-> f, n |-> n, keyword |-> <<>>,
                   result |-> top_technicians(work_orders, n, f)]
    /\ pc' = "returned"
    /\ UNCHANGED <<events, work_orders, app>>

CallCountDistinctTechnicians ==
    /\ pc = "ready"
    /\ \E f \in FiltersA :
          call' = [fn |-> "count_distinct_technicians", f |-> f, n |-> 0,
                   keyword |-> <<>>,
                   result |-> count_distinct_technicians(work_orders, f)]
    /\ pc' = "returned"
    /\ UNCHANGED <<events, work_orders, app>>

NextTech == CallTopTechnicians \/ CallCountDistinctTechnicians \/ Return

SpecTech == InitTech /\ [][NextTech]_vars

\* C7: top_technicians(n) pairs each returned technician with the number of
\* distinct incidents of the filtered set whose technicians list contains the
\* name, whatever the number of updates of those incidents; the rows are in
\* (count descending, name ascending) order, no name is blank, and the result
\* is the first n of all technicians of the filtered set in that order.
C7_TopTechnicians ==
    call.fn = "top_technicians" =>
        LET scope == InScope(call.f)
            names == UNION {Range(r.technicians) : r \in scope}
            CountOf(t) == Cardinality({r.work_order_id :
                                          r \in {x \in scope : t \in Range(x.technicians)}})
            res == call.result
            returned == {res[i].technician : i \in 1..Len(res)}
        IN  /\ Len(res) = (IF call.n < Cardinality(names) THEN call.n
                           ELSE Cardinality(names))
            /\ Cardinality(returned) = Len(res)
            /\ \A i \in 1..Len(res) :
                  /\ res[i].technician \in names
                  /\ ~(\A k \in 1..Len(res[i].technician) : IsSpace(res[i].technician[k]))
                  /\ res[i].work_order_count = CountOf(res[i].technician)
            /\ \A i, j \in 1..Len(res) :
                  i < j => \/ res[i].work_order_count > res[j].work_order_count
                           \/ /\ res[i].work_order_count = res[j].work_order_count
                              /\ StrLess(res[i].technician, res[j].technician)
            /\ \A t \in names \ returned : \A i \in 1..Len(res) :
                  \/ CountOf(t) < res[i].work_order_count
                  \/ /\ CountOf(t) = res[i].work_order_count
                     /\ StrLess(res[i].technician, t)

C7_Witness ==
    /\ call.fn = "top_technicians"
    /\ call.n = 1
    /\ Len(work_orders) = 2
    /\ work_orders[1].technicians = <<Al>> /\ work_orders[1].n_updates = 2
    /\ work_orders[2].technicians = <<Bo>> /\ work_orders[2].n_updates = 1
    /\ call.f = NoFilters
    /\ call.result = <<[technician |-> Al, work_order_count |-> 1]>>

-----------------------------------------------------------------------------
(* data.py: the event rows and build_work_orders.  An event is a row after *)
(* load_events: its text columns stripped, its timestamps parsed.          *)

Event(id, eq, pl, sym, desc, tech, comment, start, end) ==
    [work_order_id |-> id, equipment_id |-> eq, product_line |-> pl,
     symptom_code |-> sym, description |-> desc, technician |-> tech,
     comment |-> comment, start_ts |-> start, end_ts |-> end]

\* events.sort_values(["work_order_id", "start_ts", "end_ts"]): rows with equal
\* keys keep their order
SortEvents(evs) ==
    LET Before(i, j) ==
            \/ evs[i].work_order_id < evs[j].work_order_id
            \/ /\ evs[i].work_order_id = evs[j].work_order_id
               /\ \/ evs[i].start_ts < evs[j].start_ts
                  \/ /\ evs[i].start_ts = evs[j].start_ts
                     /\ \/ evs[i].end_ts < evs[j].end_ts
                        \/ evs[i].end_ts = evs[j].end_ts /\ i < j
        order == SortSeq([i \in 1..Len(evs) |-> i], Before)
    IN  [k \in 1..Len(evs) |-> evs[order[k]]]

\* _concat_comments over the comments of one group, in order
RECURSIVE ConcatLoop(_, _, _)
ConcatLoop(s, cleaned, last) ==
    IF s = <<>> THEN cleaned
    ELSE LET t == Strip(s[1])
         IN  IF t = <<>> THEN ConcatLoop(Tail(s), cleaned, last)
             ELSE IF <<t>> = last THEN ConcatLoop(Tail(s), cleaned, last)
             ELSE ConcatLoop(Tail(s), Append(cleaned, t), <<t>>)

\* "\n".join(lines)
RECURSIVE JoinLines(_)
JoinLines(lines) ==
    IF lines = <<>> THEN <<>>
    ELSE IF Len(lines) = 1 THEN lines[1]
    ELSE lines[1] \o <<"\n">> \o JoinLines(Tail(lines))

\* mutant: consecutive duplicates are kept
_concat_comments_keep_duplicates(s) ==
    LET NonBlank(x) == Strip(x) # <<>>
        kept == SelectSeq(s, NonBlank)
    IN  JoinLines([i \in 1..Len(kept) |-> Strip(kept[i])])

_concat_comments(s) == JoinLines(ConcatLoop(s, <<>>, None))

\* sorted(set(x for x in s if str(x).strip()))
SortedTechnicians(s) ==
    LET names == {s[i] : i \in {j \in 1..Len(s) : Strip(s[j]) # <<>>}}
    IN  SortSeq(RowsOf(names), StrLess)

\* the smallest and the largest of a non-empty set of timestamps
MinOf(S) == CHOOSE x \in S : \A y \in S : x <= y
MaxOf(S) == CHOOSE x \in S : \A y \in S : y <= x

\* mutant: n_updates counts the non-blank comments of the group
AggRow_count(g) ==
    [work_order_id |-> g[1].work_order_id,
     equipment_id  |-> g[1].equipment_id,
     product_line  |-> g[1].product_line,
     symptom_code  |-> g[1].symptom_code,
     description   |-> g[1].description,
     start_ts      |-> MinOf({g[i].start_ts : i \in 1..Len(g)}),
     end_ts        |-> MaxOf({g[i].end_ts : i \in 1..Len(g)}),
     technicians   |-> SortedTechnicians([i \in 1..Len(g) |-> g[i].technician]),
     comments      |-> _concat_comments([i \in 1..Len(g) |-> g[i].comment]),
     n_updates     |-> Cardinality({i \in 1..Len(g) : g[i].comment # <<>>})]

\* the incident row of one group g of the sorted events
AggRow(g) ==
    [work_order_id |-> g[1].work_order_id,
     equipment_id  |-> g[1].equipment_id,
     product_line  |-> g[1].product_line,
     symptom_code  |-> g[1].symptom_code,
     description   |-> g[1].description,
     start_ts      |-> MinOf({g[i].start_ts : i \in 1..Len(g)}),
     end_ts        |-> MaxOf({g[i].end_ts : i \in 1..Len(g)}),
     technicians   |-> SortedTechnicians([i \in 1..Len(g) |-> g[i].technician]),
     comments      |-> _concat_comments([i \in 1..Len(g) |-> g[i].comment]),
     n_updates     |-> Len(g)]

\* mutant: the events are grouped by work_order_id and equipment_id
build_work_orders_by_equipment(evs) ==
    LET ev == SortEvents(evs)
        keys == {<<ev[i].work_order_id, ev[i].equipment_id>> : i \in 1..Len(ev)}
        KeyBefore(a, b) == a[1] < b[1] \/ (a[1] = b[1] /\ StrLess(a[2], b[2]))
        sorted == SortSeq(RowsOf(keys), KeyBefore)
        Group(k) == LET In(e) == <<e.work_order_id, e.equipment_id>> = k
                    IN  SelectSeq(ev, In)
    IN  [k \in 1..Len(sorted) |-> AggRow(Group(sorted[k]))]

build_work_orders(evs) ==
    LET ev == SortEvents(evs)
        ids == {ev[i].work_order_id : i \in 1..Len(ev)}
        IdBefore(a, b) == a < b
        sorted == SortSeq(RowsOf(ids), IdBefore)
        Group(id) == LET In(e) == e.work_order_id = id
                     IN  SelectSeq(ev, In)
    IN  [k \in 1..Len(sorted) |-> AggRow(Group(sorted[k]))]

-----------------------------------------------------------------------------
(* SpecIngest: load_all.  The rows of the CSV are read one by one, then the *)
(* incident table is built.                                                *)

Ok == <<"o", "k">>

KindsE ==
    UNION {{Event(id, E1, P1, S1, <<"d">>, Al, Ok, start, start),
            Event(id, E2, P1, S2, <<"d">>, Bo, Ok, start, start + 1),
            Event(id, E1, P2, S1, <<>>, <<>>, <<>>, start, start),
            Event(id, E2, P2, S2, <<"e">>, Bo, <<"o", "k", "\n", "o", "k">>, start + 1, start + 1)} :
              id \in {1, 2}, start \in {1, 2}}

InitIngest ==
    /\ events = <<>>
    /\ work_orders = <<>>
    /\ app = NoApp
    /\ call = NoCall
    /\ pc = "reading"

\* load_events: one more row of the CSV
ReadRow ==
    /\ pc = "reading"
    /\ Len(events) < MaxEvents
    /\ \E e \in KindsE : events' = Append(events, e)
    /\ UNCHANGED <<work_orders, app, call, pc>>

\* load_all: the table is built from the events read
Load ==
    /\ pc = "reading"
    /\ work_orders' = build_work_orders(events)
    /\ pc' = "ready"
    /\ UNCHANGED <<events, app, call>>

NextIngest == ReadRow \/ Load

SpecIngest == InitIngest /\ [][NextIngest]_vars

\* C4: build_work_orders produces exactly one incident row per distinct
\* work_order_id of the events: as many rows as distinct ids, no id twice, and
\* every incident's id is the id of at least one event.
C4_OneRowPerWorkOrder ==
    pc = "ready" =>
        LET event_ids == {events[i].work_order_id : i \in 1..Len(events)}
        IN  /\ Len(work_orders) = Cardinality(event_ids)
            /\ \A i, j \in 1..Len(work_orders) :
                  i # j => work_orders[i].work_order_id # work_orders[j].work_order_id
            /\ \A i \in 1..Len(work_orders) : work_orders[i].work_order_id \in event_ids

C4_Witness ==
    /\ pc = "ready"
    /\ Len(events) = 3
    /\ events[1].work_order_id = 2 /\ events[1].equipment_id = E1
    /\ events[2].work_order_id = 1
    /\ events[3].work_order_id = 2 /\ events[3].equipment_id = E2
    /\ Len(work_orders) = 2

\* the events of incident id, as positions in the event log
EventsOf(id) == {i \in 1..Len(events) : events[i].work_order_id = id}

\* event i is later than event j in (start_ts, end_ts) order
Later(i, j) ==
    \/ events[i].start_ts > events[j].start_ts
    \/ events[i].start_ts = events[j].start_ts /\ events[i].end_ts > events[j].end_ts

\* the chronological orders of the events of incident id (events with equal
\* start_ts and end_ts may come in either order)
Chronological(id) ==
    {o \in [1..Cardinality(EventsOf(id)) -> EventsOf(id)] :
        \A a, b \in 1..Cardinality(EventsOf(id)) :
            a < b => o[a] # o[b] /\ ~Later(o[a], o[b])}

\* the non-blank comments of a sequence of comments, each one that equals
\* the one before it dropped
KeptComments(cs) ==
    LET NonBlank(c) == Strip(c) # <<>>
        nb == SelectSeq(cs, NonBlank)
        Fresh(k) == k = 1 \/ nb[k] # nb[k - 1]
        idx == SelectSeq([k \in 1..Len(nb) |-> k], Fresh)
    IN  [m \in 1..Len(idx) |-> nb[idx[m]]]

NewlineJoined(cs) ==
    IF cs = <<>> THEN <<>>
    ELSE LET Piece(k) == IF k = 1 THEN cs[1] ELSE <<"\n">> \o cs[k]
             upto[k \in 0..Len(cs)] == IF k = 0 THEN <<>> ELSE upto[k - 1] \o Piece(k)
         IN  upto[Len(cs)]

\* the lines of a text (none for the empty text)
LinesOf(s) ==
    LET breaks == {i \in 1..Len(s) : s[i] = "\n"}
        starts == {1} \cup {i + 1 : i \in breaks}
        EndOf(b) == CHOOSE e \in (breaks \cup {Len(s) + 1}) :
                        e >= b /\ \A x \in (breaks \cup {Len(s) + 1}) : x >= b => e <= x
    IN  IF s = <<>> THEN {}
        ELSE {[start |-> b, text |-> SubSeq(s, b, EndOf(b) - 1), next |-> EndOf(b) + 1] : b \in starts}

\* the comments field is the newline-joined kept comments of the events in
\* a chronological order
CommentsJoined(r) ==
    \E o \in Chronological(r.work_order_id) :
        r.comments = NewlineJoined(KeptComments(
            [a \in 1..Cardinality(EventsOf(r.work_order_id)) |-> events[o[a]].comment]))

\* C22 as stated: the comments of every incident are the newline-joined
\* comments of its events in chronological order, blank ones removed and
\* each one equal to its predecessor dropped; no line of the result is
\* blank and no two adjacent lines are equal.
C22_AsStated ==
    pc = "ready" =>
        \A n \in 1..Len(work_orders) :
            /\ CommentsJoined(work_orders[n])
            /\ \A l \in LinesOf(work_orders[n].comments) : Strip(l.text) # <<>>
            /\ \A l, m \in LinesOf(work_orders[n].comments) :
                  m.start = l.next => m.text # l.text

\* C22: the comments of every incident are the newline-joined comments of
\* its events in chronological order (by start_ts, then end_ts), blank ones
\* removed and each one equal to its predecessor dropped; no two adjacent
\* comments of the result are equal and none is blank, and when no comment
\* holds a line break no line of the result is blank and no two adjacent
\* lines are equal.
C22_Comments ==
    pc = "ready" =>
        \A n \in 1..Len(work_orders) :
            /\ CommentsJoined(work_orders[n])
            /\ (\A i \in EventsOf(work_orders[n].work_order_id) :
                    "\n" \notin Range(events[i].comment))
                  => /\ \A l \in LinesOf(work_orders[n].comments) : Strip(l.text) # <<>>
                     /\ \A l, m \in LinesOf(work_orders[n].comments) :
                           m.start = l.next => m.text # l.text

C22_Witness ==
    /\ pc = "ready"
    /\ Len(events) = 3
    /\ \A i \in 1..3 : events[i].work_order_id = 1
    /\ events[1].comment = Ok /\ events[1].start_ts = 2
    /\ events[2].comment = <<>> /\ events[2].start_ts = 2
    /\ events[3].comment = Ok /\ events[3].start_ts = 1
    /\ Len(work_orders) = 1
    /\ work_orders[1].comments = Ok

\* the sum of the n_updates of the first k incidents
RECURSIVE UpdatesUpTo(_)
UpdatesUpTo(k) == IF k = 0 THEN 0 ELSE UpdatesUpTo(k - 1) + work_orders[k].n_updates

\* C25: every incident takes equipment_id, product_line, symptom_code and
\* description from an event of its own that no other of its events precedes
\* in (start_ts, end_ts) order; its start_ts is the least start_ts and its
\* end_ts the greatest end_ts of its events; its technicians are the
\* distinct non-blank technician names of its events in ascending order;
\* its n_updates is the number of its events, and the n_updates of all
\* incidents sum to the number of events.
C25_IncidentFields ==
    pc = "ready" =>
        /\ \A n \in 1..Len(work_orders) :
              LET r == work_orders[n]
                  I == EventsOf(r.work_order_id)
                  names == {events[i].technician : i \in I} \ {<<>>}
              IN  /\ \E i \in I :
                        /\ \A j \in I : ~Later(i, j)
                        /\ r.equipment_id = events[i].equipment_id
                        /\ r.product_line = events[i].product_line
                        /\ r.symptom_code = events[i].symptom_code
                        /\ r.description = events[i].description
                  /\ \E i \in I : r.start_ts = events[i].start_ts
                  /\ \A i \in I : r.start_ts <= events[i].start_ts
                  /\ \E i \in I : r.end_ts = events[i].end_ts
                  /\ \A i \in I : r.end_ts >= events[i].end_ts
                  /\ Range(r.technicians) = names
                  /\ \A a, b \in 1..Len(r.technicians) :
                        a < b => StrLess(r.technicians[a], r.technicians[b])
                  /\ r.n_updates = Cardinality(I)
        /\ UpdatesUpTo(Len(work_orders)) = Len(events)

C25_Witness ==
    /\ pc = "ready"
    /\ Len(events) = 3
    /\ events[1].work_order_id = 1 /\ events[1].equipment_id = E1 /\ events[1].start_ts = 2
    /\ events[1].technician = Al
    /\ events[2].work_order_id = 1 /\ events[2].equipment_id = E2 /\ events[2].start_ts = 1
    /\ events[2].technician = Bo /\ events[2].end_ts = 2
    /\ events[3].work_order_id = 2 /\ events[3].comment = <<>>
    /\ Len(work_orders) = 2
    /\ work_orders[1].equipment_id = E2
    /\ work_orders[1].start_ts = 1 /\ work_orders[1].end_ts = 2
    /\ work_orders[1].technicians = <<Al, Bo>>
    /\ work_orders[1].n_updates = 2
    /\ work_orders[2].n_updates = 1

-----------------------------------------------------------------------------
(* app.py: intent detection.  The str literals of the source are written   *)
(* out as character sequences.                                             *)

\* mutant: the "how many" / "number of" test is made first
intent_how_many_first(q) ==
    LET ql == Lower(q)
    IN  IF \/ Contains(<<"h", "o", "w", " ", "m", "a", "n", "y">>, ql)
           \/ Contains(<<"n", "u", "m", "b", "e", "r", " ", "o", "f">>, ql)
        THEN "count_incidents"
        ELSE IF \/ Contains(<<"m", "e", "n", "t", "i", "o", "n">>, ql)
                \/ Contains(<<"c", "o", "n", "t", "a", "i", "n">>, ql)
        THEN "count_mentions"
        ELSE "unknown"

intent(q) ==
    LET ql == Lower(q)
    IN  \* "mention", "mentions", "contain", "contains", "containing"
        IF \/ Contains(<<"m", "e", "n", "t", "i", "o", "n">>, ql)
           \/ Contains(<<"m", "e", "n", "t", "i", "o", "n", "s">>, ql)
           \/ Contains(<<"c", "o", "n", "t", "a", "i", "n">>, ql)
           \/ Contains(<<"c", "o", "n", "t", "a", "i", "n", "s">>, ql)
           \/ Contains(<<"c", "o", "n", "t", "a", "i", "n", "i", "n", "g">>, ql)
        THEN "count_mentions"
        \* "which one had more"
        ELSE IF Contains(<<"w", "h", "i", "c", "h", " ", "o", "n", "e", " ", "h", "a", "d", " ", "m", "o", "r", "e">>, ql)
        THEN "compare_equipment"
        \* "which technician handled the most"
        ELSE IF Contains(<<"w", "h", "i", "c", "h", " ", "t", "e", "c", "h", "n", "i", "c", "i", "a", "n", " ", "h", "a", "n", "d", "l", "e", "d", " ", "t", "h", "e", " ", "m", "o", "s", "t">>, ql)
        THEN "top_technician"
        \* "how many different technicians"
        ELSE IF Contains(<<"h", "o", "w", " ", "m", "a", "n", "y", " ", "d", "i", "f", "f", "e", "r", "e", "n", "t", " ", "t", "e", "c", "h", "n", "i", "c", "i", "a", "n", "s">>, ql)
        THEN "count_distinct_technicians"
        \* "distinct equipment", "different equipment"
        ELSE IF \/ Contains(<<"d", "i", "s", "t", "i", "n", "c", "t", " ", "e", "q", "u", "i", "p", "m", "e", "n", "t">>, ql)
                \/ Contains(<<"d", "i", "f", "f", "e", "r", "e", "n", "t", " ", "e", "q", "u", "i", "p", "m", "e", "n", "t">>, ql)
        THEN "count_distinct_equipment"
        \* "most common symptom"
        ELSE IF Contains(<<"m", "o", "s", "t", " ", "c", "o", "m", "m", "o", "n", " ", "s", "y", "m", "p", "t", "o", "m">>, ql)
        THEN "most_common_symptom"
        \* "which equipment has the most incidents"
        ELSE IF Contains(<<"w", "h", "i", "c", "h", " ", "e", "q", "u", "i", "p", "m", "e", "n", "t", " ", "h", "a", "s", " ", "t", "h", "e", " ", "m", "o", "s", "t", " ", "i", "n", "c", "i", "d", "e", "n", "t", "s">>, ql)
        THEN "top_equipment"
        \* "how many", "number of"
        ELSE IF \/ Contains(<<"h", "o", "w", " ", "m", "a", "n", "y">>, ql)
                \/ Contains(<<"n", "u", "m", "b", "e", "r", " ", "o", "f">>, ql)
        THEN "count_incidents"
        \* "what about"
        ELSE IF StartsWith(Strip(ql), <<"w", "h", "a", "t", " ", "a", "b", "o", "u", "t">>)
        THEN "what_about"
        ELSE "unknown"

-----------------------------------------------------------------------------
(* SpecIntent: intent applied to every question made of at most MaxFragsI  *)
(* of these fragments, separated by blanks.                                *)

FragmentsI ==
    {<<"m", "e", "n", "t", "i", "o", "n">>,
     <<"C", "o", "n", "t", "a", "i", "n", "s">>,
     <<"w", "h", "i", "c", "h", " ", "o", "n", "e", " ", "h", "a", "d", " ", "m", "o", "r", "e">>,
     <<"W", "h", "i", "c", "h", " ", "t", "e", "c", "h", "n", "i", "c", "i", "a", "n", " ", "h", "a", "n", "d", "l", "e", "d", " ", "t", "h", "e", " ", "m", "o", "s", "t">>,
     <<"h", "o", "w", " ", "m", "a", "n", "y", " ", "d", "i", "f", "f", "e", "r", "e", "n", "t", " ", "t", "e", "c", "h", "n", "i", "c", "i", "a", "n", "s">>,
     <<"d", "i", "s", "t", "i", "n", "c", "t", " ", "e", "q", "u", "i", "p", "m", "e", "n", "t">>,
     <<"d", "i", "f", "f", "e", "r", "e", "n", "t", " ", "e", "q", "u", "i", "p", "m", "e", "n", "t">>,
     <<"M", "o", "s", "t", " ", "c", "o", "m", "m", "o", "n", " ", "s", "y", "m", "p", "t", "o", "m">>,
     <<"w", "h", "i", "c", "h", " ", "e", "q", "u", "i", "p", "m", "e", "n", "t", " ", "h", "a", "s", " ", "t", "h", "e", " ", "m", "o", "s", "t", " ", "i", "n", "c", "i", "d", "e", "n", "t", "s">>,
     <<"H", "o", "w", " ", "m", "a", "n", "y">>,
     <<"n", "u", "m", "b", "e", "r", " ", "o", "f">>,
     <<" ", "W", "h", "a", "t", " ", "a", "b", "o", "u", "t">>,
     <<"h", "e", "l", "l", "o">>}

\* the texts of at most n fragments joined by single blanks
RECURSIVE TextsOf(_, _)
TextsOf(frags, n) ==
    IF n = 0 THEN {<<>>}
    ELSE LET shorter == TextsOf(frags, n - 1)
         IN  shorter \cup frags \cup
             {t \o <<" ">> \o g : t \in shorter \ {<<>>}, g \in frags}

InitIntent ==
    /\ events = <<>>
    /\ work_orders = <<>>
    /\ app = NoApp
    /\ call = NoCall
    /\ pc = "ready"

CallIntent ==
    /\ pc = "ready"
    /\ \E q \in TextsOf(FragmentsI, MaxFragsI) :
          call' = [fn |-> "intent", f |-> NoFilters, n |-> 0, keyword |-> q,
                   result |-> intent(q)]
    /\ pc' = "returned"
    /\ UNCHANGED <<events, work_orders, app>>

NextIntent == CallIntent \/ Return

SpecIntent == InitIntent /\ [][NextIntent]_vars

\* the tags in the order of precedence of the classifier
IntentTags ==
    <<"count_mentions", "compare_equipment", "top_technician",
      "count_distinct_technicians", "count_distinct_equipment",
      "most_common_symptom", "top_equipment", "count_incidents", "what_about">>

\* text t, lower-cased, has phrase p somewhere
Has(t, p) == \E i \in 1..Len(t) : \A k \in 1..Len(p) :
                 i + k - 1 <= Len(t) /\ LowerChar(t[i + k - 1]) = p[k]

\* where the text starts once its leading whitespace is skipped
FirstInk(t) == CHOOSE i \in 1..(Len(t) + 1) :
                   /\ \A j \in 1..(i - 1) : IsSpace(t[j])
                   /\ i <= Len(t) => ~IsSpace(t[i])

\* rule i of the classifier matches text t
RuleMatches(i, t) ==
    CASE i = 1 -> Has(t, <<"m", "e", "n", "t", "i", "o", "n">>) \/ Has(t, <<"c", "o", "n", "t", "a", "i", "n">>)
      [] i = 2 -> Has(t, <<"w", "h", "i", "c", "h", " ", "o", "n", "e", " ", "h", "a", "d", " ", "m", "o", "r", "e">>)
      [] i = 3 -> Has(t, <<"w", "h", "i", "c", "h", " ", "t", "e", "c", "h", "n", "i", "c", "i", "a", "n", " ", "h", "a", "n", "d", "l", "e", "d", " ", "t", "h", "e", " ", "m", "o", "s", "t">>)
      [] i = 4 -> Has(t, <<"h", "o", "w", " ", "m", "a", "n", "y", " ", "d", "i", "f", "f", "e", "r", "e", "n", "t", " ", "t", "e", "c", "h", "n", "i", "c", "i", "a", "n", "s">>)
      [] i = 5 -> Has(t, <<"d", "i", "s", "t", "i", "n", "c", "t", " ", "e", "q", "u", "i", "p", "m", "e", "n", "t">>) \/ Has(t, <<"d", "i", "f", "f", "e", "r", "e", "n", "t", " ", "e", "q", "u", "i", "p", "m", "e", "n", "t">>)
      [] i = 6 -> Has(t, <<"m", "o", "s", "t", " ", "c", "o", "m", "m", "o", "n", " ", "s", "y", "m", "p", "t", "o", "m">>)
      [] i = 7 -> Has(t, <<"w", "h", "i", "c", "h", " ", "e", "q", "u", "i", "p", "m", "e", "n", "t", " ", "h", "a", "s", " ", "t", "h", "e", " ", "m", "o", "s", "t", " ", "i", "n", "c", "i", "d", "e", "n", "t", "s">>)
      [] i = 8 -> Has(t, <<"h", "o", "w", " ", "m", "a", "n", "y">>) \/ Has(t, <<"n", "u", "m", "b", "e", "r", " ", "o", "f">>)
      [] i = 9 -> \A k \in 1..Len(<<"w", "h", "a", "t", " ", "a", "b", "o", "u", "t">>) :
                      /\ FirstInk(t) + k - 1 <= Len(t)
                      /\ LowerChar(t[FirstInk(t) + k - 1]) = <<"w", "h", "a", "t", " ", "a", "b", "o", "u", "t">>[k]

\* C8: intent(text) is the tag of the first rule, in the fixed precedence,
\* that matches the lower-cased text, and unknown when no rule matches.
C8_FirstRuleWins ==
    call.fn = "intent" =>
        LET matching == {i \in 1..Len(IntentTags) : RuleMatches(i, call.keyword)}
        IN  IF matching = {} THEN call.result = "unknown"
            ELSE \E i \in matching :
                    /\ \A j \in matching : i <= j
                    /\ call.result = IntentTags[i]

\* "How many" and "mention" in one question: the earlier rule wins
C8_Witness ==
    /\ call.fn = "intent"
    /\ RuleMatches(1, call.keyword)
    /\ RuleMatches(8, call.keyword)
    /\ ~Contains(<<"h", "o", "w", " ", "m", "a", "n", "y">>, call.keyword)
    /\ call.result = "count_mentions"

-----------------------------------------------------------------------------
(* app.py: parsing helpers.  A timestamp is a month index, 12 * year +     *)
(* (month - 1): every bound the extractor makes is the first instant of a  *)
(* month, so comparing month indices compares the timestamps.              *)

Ts(year, month) == 12 * year + (month - 1)

\* a call returned value v / raised exception e
Returned(v) == [raised |-> FALSE, value |-> v]
Raised(e) == [raised |-> TRUE, exc |-> e]

\* \w of re: letters, digits and the underscore
IsWord(c) ==
    /\ c \in DOMAIN Ord
    /\ \/ Ord[c] >= Ord["0"] /\ Ord[c] <= Ord["9"]
       \/ Ord[c] >= Ord["A"] /\ Ord[c] <= Ord["Z"]
       \/ Ord[c] >= Ord["a"] /\ Ord[c] <= Ord["z"]
       \/ c = "_"

IsDigit(c) == c \in DOMAIN Ord /\ Ord[c] >= Ord["0"] /\ Ord[c] <= Ord["9"]

\* \b of re before position i of s (i in 1..Len(s)+1)
Boundary(s, i) ==
    LET before == i > 1 /\ IsWord(s[i - 1])
        after  == i <= Len(s) /\ IsWord(s[i])
    IN  before # after

\* the literal w stands at position i of s
At(s, i, w) == i + Len(w) - 1 <= Len(s) /\ SubSeq(s, i, i + Len(w) - 1) = w

\* the smallest element of a non-empty set of positions (re.search is leftmost)
Leftmost(I) == CHOOSE i \in I : \A j \in I : i <= j

\* \b(20\d{2})\b matches at position i
YearAt(s, i) ==
    /\ Boundary(s, i)
    /\ At(s, i, <<"2", "0">>)
    /\ i + 3 <= Len(s) /\ IsDigit(s[i + 2]) /\ IsDigit(s[i + 3])
    /\ Boundary(s, i + 4)

_year_from_query(ql, default_year) ==
    LET hits == {i \in 1..Len(ql) : YearAt(ql, i)}
        i == Leftmost(hits)
    IN  IF hits = {} THEN default_year
        ELSE 2000 + 10 * (Ord[ql[i + 2]] - Ord["0"]) + (Ord[ql[i + 3]] - Ord["0"])

\* the position after the whitespace that starts at position p of s
SkipSpaces(s, p) ==
    Leftmost({i \in p..(Len(s) + 1) : i = Len(s) + 1 \/ ~IsSpace(s[i])})

\* \b w1 \s+ w2 \b matches somewhere in s (w2 starts with ink, so \s+ takes
\* all the whitespace after w1)
TwoWords(s, w1, w2) ==
    \E i \in 1..Len(s) :
        /\ Boundary(s, i)
        /\ At(s, i, w1)
        /\ SkipSpaces(s, i + Len(w1)) > i + Len(w1)
        /\ At(s, SkipSpaces(s, i + Len(w1)), w2)
        /\ Boundary(s, SkipSpaces(s, i + Len(w1)) + Len(w2))

\* \b w \b matches somewhere in s
OneWord(s, w) ==
    \E i \in 1..Len(s) : Boundary(s, i) /\ At(s, i, w) /\ Boundary(s, i + Len(w))

\* the tuple (start, end) a range function returns
Range2(start, end) == [start |-> start, end |-> end]

\* (start, end), or (None, None)
_half_year_range_from_query(q, default_year) ==
    LET ql == Lower(q)
        y == _year_from_query(ql, default_year)
    IN  \* first\s+half | 1st\s+half | h1
        IF \/ TwoWords(ql, <<"f", "i", "r", "s", "t">>, <<"h", "a", "l", "f">>)
           \/ TwoWords(ql, <<"1", "s", "t">>, <<"h", "a", "l", "f">>)
           \/ OneWord(ql, <<"h", "1">>)
        THEN Range2(Some(Ts(y, 1)), Some(Ts(y, 7)))
        \* second\s+half | 2nd\s+half | h2
        ELSE IF \/ TwoWords(ql, <<"s", "e", "c", "o", "n", "d">>, <<"h", "a", "l", "f">>)
                \/ TwoWords(ql, <<"2", "n", "d">>, <<"h", "a", "l", "f">>)
                \/ OneWord(ql, <<"h", "2">>)
        THEN Range2(Some(Ts(y, 7)), Some(Ts(y + 1, 1)))
        ELSE Range2(None, None)

\* the alternatives of the month pattern: a stem and its optional parts,
\* jan(?:uary)? ... sep(?:t)?(?:ember)? ... dec(?:ember)?
MonthPattern ==
    <<<<<<"j", "a", "n">>, <<<<"u", "a", "r", "y">>>>>>,
      <<<<"f", "e", "b">>, <<<<"r", "u", "a", "r", "y">>>>>>,
      <<<<"m", "a", "r">>, <<<<"c", "h">>>>>>,
      <<<<"a", "p", "r">>, <<<<"i", "l">>>>>>,
      <<<<"m", "a", "y">>, <<>>>>,
      <<<<"j", "u", "n">>, <<<<"e">>>>>>,
      <<<<"j", "u", "l">>, <<<<"y">>>>>>,
      <<<<"a", "u", "g">>, <<<<"u", "s", "t">>>>>>,
      <<<<"s", "e", "p">>, <<<<"t">>, <<"e", "m", "b", "e", "r">>>>>>,
      <<<<"o", "c", "t">>, <<<<"o", "b", "e", "r">>>>>>,
      <<<<"n", "o", "v">>, <<<<"e", "m", "b", "e", "r">>>>>>,
      <<<<"d", "e", "c">>, <<<<"e", "m", "b", "e", "r">>>>>>>>

\* the strings a stem followed by optional parts, each present or not, matches
RECURSIVE WithOptions(_, _)
WithOptions(stem, opts) ==
    IF opts = <<>> THEN {stem}
    ELSE WithOptions(stem, Tail(opts)) \cup WithOptions(stem \o opts[1], Tail(opts))

MonthWords == UNION {WithOptions(MonthPattern[i][1], MonthPattern[i][2]) :
                        i \in 1..Len(MonthPattern)}

\* the month pattern, between two \b, matches at position i: group(1)
MonthAt(s, i) ==
    IF Boundary(s, i)
    THEN {w \in MonthWords : At(s, i, w) /\ Boundary(s, i + Len(w))}
    ELSE {}

_MONTH_MAP ==
    {<<<<"j", "a", "n">>, 1>>,
     <<<<"j", "a", "n", "u", "a", "r", "y">>, 1>>,
     <<<<"f", "e", "b">>, 2>>,
     <<<<"f", "e", "b", "r", "u", "a", "r", "y">>, 2>>,
     <<<<"m", "a", "r">>, 3>>,
     <<<<"m", "a", "r", "c", "h">>, 3>>,
     <<<<"a", "p", "r">>, 4>>,
     <<<<"a", "p", "r", "i", "l">>, 4>>,
     <<<<"m", "a", "y">>, 5>>,
     <<<<"j", "u", "n">>, 6>>,
     <<<<"j", "u", "n", "e">>, 6>>,
     <<<<"j", "u", "l">>, 7>>,
     <<<<"j", "u", "l", "y">>, 7>>,
     <<<<"a", "u", "g">>, 8>>,
     <<<<"a", "u", "g", "u", "s", "t">>, 8>>,
     <<<<"s", "e", "p">>, 9>>,
     <<<<"s", "e", "p", "t">>, 9>>,
     <<<<"s", "e", "p", "t", "e", "m", "b", "e", "r">>, 9>>,
     <<<<"o", "c", "t">>, 10>>,
     <<<<"o", "c", "t", "o", "b", "e", "r">>, 10>>,
     <<<<"n", "o", "v">>, 11>>,
     <<<<"n", "o", "v", "e", "m", "b", "e", "r">>, 11>>,
     <<<<"d", "e", "c">>, 12>>,
     <<<<"d", "e", "c", "e", "m", "b", "e", "r">>, 12>>}

\* start + pd.offsets.MonthBegin(1), start the first instant of a month
NextMonthBegin(ts) == ts + 1

_month_range_from_query(q, default_year) ==
    LET ql == Lower(q)
        hits == {i \in 1..Len(ql) : MonthAt(ql, i) # {}}
        word == CHOOSE w \in MonthAt(ql, Leftmost(hits)) : TRUE
        entry == {e \in _MONTH_MAP : e[1] = word}
        mon == (CHOOSE e \in entry : TRUE)[2]
        y == _year_from_query(ql, default_year)
        start == Ts(y, mon)
    IN  IF hits = {} THEN Returned(Range2(None, None))
        ELSE IF entry = {} THEN Raised("KeyError")
        ELSE Returned(Range2(Some(start), Some(NextMonthBegin(start))))

\* for x in known: if x.lower() in ql: return x.  known is the set in the
\* order this process iterates it.
FirstKnownIn(q, known) ==
    LET ql == Lower(q)
        hits == {i \in 1..Len(known) : Contains(Lower(known[i]), ql)}
    IN  IF hits = {} THEN None ELSE Some(known[Leftmost(hits)])

_extract_equipment_id(q, known_equipment) == FirstKnownIn(q, known_equipment)

_extract_product_line(q, known_product_lines) == FirstKnownIn(q, known_product_lines)

phrase_map ==
    <<<<<<"p", "r", "e", "s", "s", "u", "r", "e", " ", "f", "a", "u", "l", "t">>,
        <<"P", "R", "E", "S", "S", "U", "R", "E", "_", "F", "A", "U", "L", "T">>>>,
      <<<<"s", "p", "i", "n", "d", "l", "e", " ", "t", "i", "m", "e", "o", "u", "t">>,
        <<"S", "P", "I", "N", "D", "L", "E", "_", "T", "I", "M", "E", "O", "U", "T">>>>,
      <<<<"b", "e", "a", "r", "i", "n", "g", " ", "w", "e", "a", "r">>,
        <<"B", "E", "A", "R", "I", "N", "G", "_", "W", "E", "A", "R">>>>,
      <<<<"h", "y", "d", "r", "a", "u", "l", "i", "c", " ", "l", "e", "a", "k">>,
        <<"H", "Y", "D", "R", "A", "U", "L", "I", "C", "_", "L", "E", "A", "K">>>>,
      <<<<"a", "l", "i", "g", "n", "m", "e", "n", "t", " ", "d", "r", "i", "f", "t">>,
        <<"A", "L", "I", "G", "N", "M", "E", "N", "T", "_", "D", "R", "I", "F", "T">>>>,
      <<<<"s", "e", "n", "s", "o", "r", " ", "f", "a", "i", "l", "u", "r", "e">>,
        <<"S", "E", "N", "S", "O", "R", "_", "F", "A", "I", "L", "U", "R", "E">>>>>>

_extract_symptom_code(q, known_symptoms) ==
    LET ql == Lower(q)
        direct == FirstKnownIn(q, known_symptoms)
        hits == {i \in 1..Len(phrase_map) :
                    /\ Contains(phrase_map[i][1], ql)
                    /\ phrase_map[i][2] \in Range(known_symptoms)}
    IN  IF direct # None THEN direct
        ELSE IF hits = {} THEN None
        ELSE Some(phrase_map[Leftmost(hits)][2])

\* a quote character of the pattern ['\"]
IsQuote(c) == c \in {"'", "\""}

\* ['\"]([^'\"]+)['\"] matches at position i of q
QuotedAt(q, i) ==
    /\ IsQuote(q[i])
    /\ i + 1 <= Len(q) /\ ~IsQuote(q[i + 1])
    /\ \E j \in (i + 2)..Len(q) : IsQuote(q[j])

\* a character of the class [a-z0-9_-]
IsKeywordChar(c) ==
    /\ c \in DOMAIN Ord
    /\ \/ Ord[c] >= Ord["a"] /\ Ord[c] <= Ord["z"]
       \/ Ord[c] >= Ord["0"] /\ Ord[c] <= Ord["9"]
       \/ c \in {"_", "-"}

\* ([a-z0-9_-]+) at position p of s: the longest run of the class, or <<>>
KeywordRun(s, p) ==
    LET stop == Leftmost({i \in p..(Len(s) + 1) :
                             i = Len(s) + 1 \/ ~IsKeywordChar(s[i])})
    IN  SubSeq(s, p, stop - 1)

\* (?:a|an|the)?\s*([a-z0-9_-]+) at position p of s: the alternatives of the
\* optional article are tried in order, then no article; the first one after
\* which the class matches gives the group
ArticleThenWord(s, p) ==
    LET After(art) == IF At(s, p, art)
                      THEN KeywordRun(s, SkipSpaces(s, p + Len(art)))
                      ELSE <<>>
    IN  IF After(<<"a">>) # <<>> THEN After(<<"a">>)
        ELSE IF After(<<"a", "n">>) # <<>> THEN After(<<"a", "n">>)
        ELSE IF After(<<"t", "h", "e">>) # <<>> THEN After(<<"t", "h", "e">>)
        ELSE KeywordRun(s, p)

MentionVerbs ==
    {<<"m", "e", "n", "t", "i", "o", "n">>,
     <<"m", "e", "n", "t", "i", "o", "n", "s">>,
     <<"c", "o", "n", "t", "a", "i", "n">>,
     <<"c", "o", "n", "t", "a", "i", "n", "s">>,
     <<"c", "o", "n", "t", "a", "i", "n", "i", "n", "g">>}

\* \b(?:mention|...)\b\s+(?:a|an|the)?\s*([a-z0-9_-]+) at position i of s: its
\* group, or <<>> when it does not match there
MentionAt(s, i) ==
    LET verbs == {v \in MentionVerbs :
                     Boundary(s, i) /\ At(s, i, v) /\ Boundary(s, i + Len(v))}
        v == CHOOSE w \in verbs : TRUE
        e == i + Len(v)
    IN  IF verbs = {} THEN <<>>
        ELSE IF e > Len(s) \/ ~IsSpace(s[e]) THEN <<>>
        ELSE ArticleThenWord(s, SkipSpaces(s, e))

\* mutant: 'leak' and 'bearing' are looked for before quoted text
extract_mention_keyword_leak_first(q) ==
    LET quoted == {i \in 1..Len(q) : QuotedAt(q, i)}
        i == Leftmost(quoted)
        j == Leftmost({k \in (i + 2)..Len(q) : IsQuote(q[k])})
        ql == Lower(q)
        m2 == {k \in 1..Len(ql) : MentionAt(ql, k) # <<>>}
    IN  IF Contains(<<"l", "e", "a", "k">>, ql) THEN <<"l", "e", "a", "k">>
        ELSE IF Contains(<<"b", "e", "a", "r", "i", "n", "g">>, ql)
        THEN <<"b", "e", "a", "r", "i", "n", "g">>
        ELSE IF quoted # {} THEN Strip(SubSeq(q, i + 1, j - 1))
        ELSE IF m2 # {} THEN Strip(MentionAt(ql, Leftmost(m2)))
        ELSE <<>>

extract_mention_keyword(q) ==
    LET quoted == {i \in 1..Len(q) : QuotedAt(q, i)}
        i == Leftmost(quoted)
        j == Leftmost({k \in (i + 2)..Len(q) : IsQuote(q[k])})
        ql == Lower(q)
        m2 == {k \in 1..Len(ql) : MentionAt(ql, k) # <<>>}
    IN  IF quoted # {} THEN Strip(SubSeq(q, i + 1, j - 1))
        ELSE IF Contains(<<"l", "e", "a", "k">>, ql) THEN <<"l", "e", "a", "k">>
        ELSE IF Contains(<<"b", "e", "a", "r", "i", "n", "g">>, ql)
        THEN <<"b", "e", "a", "r", "i", "n", "g">>
        ELSE IF m2 # {} THEN Strip(MentionAt(ql, Leftmost(m2)))
        ELSE <<>>

\* g: the module globals made at startup (known values in the order the
\* process iterates each set, default_year, USE_LLM)
extract_filters(q, g) ==
    LET eq == _extract_equipment_id(q, g.known_equipment)
        pl == _extract_product_line(q, g.known_product_lines)
        sym == _extract_symptom_code(q, g.known_symptoms)
        half == _half_year_range_from_query(q, g.default_year)
        month == _month_range_from_query(q, g.default_year)
        Make(range) == [equipment_id |-> eq, product_line |-> pl, symptom_code |-> sym,
                        start_ts_min |-> range.start, start_ts_max |-> range.end]
    IN  IF half.start = None /\ half.end = None
        THEN IF month.raised THEN month ELSE Returned(Make(month.value))
        ELSE Returned(Make(half))

-----------------------------------------------------------------------------
(* llm.py and maybe_llm.  env is what the local Ollama server does during   *)
(* one answer: tags[k] is whether the k-th GET /api/tags answers 200, and   *)
(* generate is the outcome of POST /api/generate, the "response" text of   *)
(* its JSON or an exception.                                               *)

llm_available(env, k) == env.tags[k]

\* synthesize_with_llm without the fallback on a blank response
synthesize_with_llm_blank(question, tool_output, env) ==
    IF ~env.tags[2] THEN tool_output
    ELSE IF env.generate.raised THEN tool_output
    ELSE Strip(env.generate.value)

synthesize_with_llm(question, tool_output, env) ==
    LET text == Strip(env.generate.value)
    IN  IF ~llm_available(env, 2) THEN tool_output
        ELSE IF env.generate.raised THEN tool_output
        ELSE IF text # <<>> THEN text
        ELSE tool_output

\* str.isdigit()
isdigit(s) == s # <<>> /\ \A i \in 1..Len(s) : IsDigit(s[i])

\* maybe_llm without the bypass of numeric answers
maybe_llm_always(user_question, deterministic_answer, USE_LLM, env) ==
    IF deterministic_answer = <<>> THEN deterministic_answer
    ELSE IF USE_LLM /\ env.tags[1]
    THEN synthesize_with_llm(user_question, deterministic_answer, env)
    ELSE deterministic_answer

maybe_llm(user_question, deterministic_answer, USE_LLM, env) ==
    IF deterministic_answer = <<>> THEN deterministic_answer
    ELSE IF isdigit(Strip(deterministic_answer)) THEN deterministic_answer
    ELSE IF USE_LLM /\ llm_available(env, 1)
    THEN synthesize_with_llm(user_question, deterministic_answer, env)
    ELSE deterministic_answer

\* the HTTP requests llm_available, synthesize_with_llm and maybe_llm send,
\* in order
GetTags == "GET /api/tags"

PostGenerate == "POST /api/generate"

llm_available_requests == <<GetTags>>

synthesize_with_llm_requests(env) ==
    llm_available_requests \o
        (IF ~llm_available(env, 2) THEN <<>> ELSE <<PostGenerate>>)

maybe_llm_requests(deterministic_answer, USE_LLM, env) ==
    IF deterministic_answer = <<>> THEN <<>>
    ELSE IF isdigit(Strip(deterministic_answer)) THEN <<>>
    ELSE IF USE_LLM
    THEN llm_available_requests \o
            (IF llm_available(env, 1) THEN synthesize_with_llm_requests(env) ELSE <<>>)
    ELSE <<>>

-----------------------------------------------------------------------------
(* The orchestrators: answer_question of webapp.py and the loop of app.py.  *)

DecimalDigits == <<"0", "1", "2", "3", "4", "5", "6", "7", "8", "9">>

\* str(n) of an int n >= 0
RECURSIVE str(_)
str(n) ==
    IF n < 10 THEN <<DecimalDigits[n + 1]>>
    ELSE str(n \div 10) \o <<DecimalDigits[(n % 10) + 1]>>

\* f"{name} with {n} work orders"
WithWorkOrders(name, n) ==
    name \o <<" ", "w", "i", "t", "h", " ">> \o str(n) \o <<" ", "w", "o", "r", "k", " ", "o", "r", "d", "e", "r", "s">>

\* ' and '.join(names) of the <<name, count>> pairs
RECURSIVE JoinAnd(_)
JoinAnd(tied) ==
    IF Len(tied) = 1 THEN tied[1][1]
    ELSE tied[1][1] \o <<" ", "a", "n", "d", " ">> \o JoinAnd(Tail(tied))

\* mutant: the tied codes are formatted like a single code
EachWithWorkOrders_single(tied, n) == WithWorkOrders(JoinAnd(tied), n)

\* f"{' and '.join(names)}, each with {n} work orders"
EachWithWorkOrders(tied, n) ==
    JoinAnd(tied) \o <<",", " ", "e", "a", "c", "h", " ", "w", "i", "t", "h", " ">> \o str(n) \o <<" ", "w", "o", "r", "k", " ", "o", "r", "d", "e", "r", "s">>

\* mutant: top_equipment and top_technicians are given the extracted filter
answer_question_with_filtered_top(user, extracted, wo, g, env) ==
    LET f == extracted.value
        it == intent(user)
        tied == most_common_symptoms(wo, f)
        eq == top_equipment(wo, 1, f)
        tech == top_technicians(wo, 1, f)
    IN  IF user = <<>> THEN Returned(<<>>)
        ELSE IF extracted.raised THEN extracted
        ELSE IF it = "count_mentions"
        THEN Returned(maybe_llm(user, str(count_mentions(wo, extract_mention_keyword(user), f)),
                                g.USE_LLM, env))
        ELSE IF it = "count_incidents"
        THEN Returned(maybe_llm(user, str(count_incidents(wo, f)), g.USE_LLM, env))
        ELSE IF it = "count_distinct_technicians"
        THEN Returned(maybe_llm(user, str(count_distinct_technicians(wo, f)), g.USE_LLM, env))
        ELSE IF it = "most_common_symptom"
        THEN IF tied = <<>> THEN Returned(<<>>)
             ELSE IF Len(tied) = 1
             THEN Returned(maybe_llm(user, WithWorkOrders(tied[1][1], tied[1][2]),
                                     g.USE_LLM, env))
             ELSE Returned(maybe_llm(user, EachWithWorkOrders(tied, tied[1][2]),
                                     g.USE_LLM, env))
        ELSE IF it = "top_equipment"
        THEN IF eq = <<>> THEN Returned(<<>>)
             ELSE Returned(maybe_llm(user,
                                     WithWorkOrders(eq[1].equipment_id, eq[1].work_order_count),
                                     g.USE_LLM, env))
        ELSE IF it = "top_technician"
        THEN IF tech = <<>> THEN Returned(<<>>)
             ELSE Returned(maybe_llm(user,
                                     WithWorkOrders(tech[1].technician, tech[1].work_order_count),
                                     g.USE_LLM, env))
        ELSE Returned(<<>>)

\* webapp.answer_question after user.strip() and the call of extract_filters,
\* whose outcome is extracted
answer_question_with(user, extracted, wo, g, env) ==
    LET f == extracted.value
        it == intent(user)
        tied == most_common_symptoms(wo, f)
        eq == top_equipment(wo, 1, NoFilters)
        tech == top_technicians(wo, 1, NoFilters)
    IN  IF user = <<>> THEN Returned(<<>>)
        ELSE IF extracted.raised THEN extracted
        ELSE IF it = "count_mentions"
        THEN Returned(maybe_llm(user, str(count_mentions(wo, extract_mention_keyword(user), f)),
                                g.USE_LLM, env))
        ELSE IF it = "count_incidents"
        THEN Returned(maybe_llm(user, str(count_incidents(wo, f)), g.USE_LLM, env))
        ELSE IF it = "count_distinct_technicians"
        THEN Returned(maybe_llm(user, str(count_distinct_technicians(wo, f)), g.USE_LLM, env))
        ELSE IF it = "most_common_symptom"
        THEN IF tied = <<>> THEN Returned(<<>>)
             ELSE IF Len(tied) = 1
             THEN Returned(maybe_llm(user, WithWorkOrders(tied[1][1], tied[1][2]),
                                     g.USE_LLM, env))
             ELSE Returned(maybe_llm(user, EachWithWorkOrders(tied, tied[1][2]),
                                     g.USE_LLM, env))
        ELSE IF it = "top_equipment"
        THEN IF eq = <<>> THEN Returned(<<>>)
             ELSE Returned(maybe_llm(user,
                                     WithWorkOrders(eq[1].equipment_id, eq[1].work_order_count),
                                     g.USE_LLM, env))
        ELSE IF it = "top_technician"
        THEN IF tech = <<>> THEN Returned(<<>>)
             ELSE Returned(maybe_llm(user,
                                     WithWorkOrders(tech[1].technician, tech[1].work_order_count),
                                     g.USE_LLM, env))
        ELSE Returned(<<>>)

\* webapp.answer_question.  (The stripped question and the outcome of
\* extract_filters are bound by singleton sets, so each is computed once.)
\* answer_question resolving a follow-up from the turn before: a question
\* of intent what_about is answered with the last answer of the session
answer_question_with_follow_up(question, wo, g, env) ==
    CHOOSE r \in {IF intent(user) = "what_about" /\ ~extracted.raised /\ g.history # <<>>
                  THEN Returned(g.history[Len(g.history)].a)
                  ELSE answer_question_with(user, extracted, wo, g, env) :
                     user \in {Strip(question)},
                     extracted \in {IF Strip(question) = <<>> THEN Returned(NoFilters)
                                    ELSE extract_filters(Strip(question), g)}} : TRUE

answer_question(question, wo, g, env) ==
    CHOOSE r \in {answer_question_with(user, extracted, wo, g, env) :
                     user \in {Strip(question)},
                     extracted \in {IF Strip(question) = <<>> THEN Returned(NoFilters)
                                    ELSE extract_filters(Strip(question), g)}} : TRUE

\* the count_distinct_equipment branch of the loop of app.py: the filter steps
\* written out, then nunique of equipment_id
InlineDistinctEquipment(wo, f) ==
    LET Eq(r) == r.equipment_id = f.equipment_id[1]
        Pl(r) == r.product_line = f.product_line[1]
        Sym(r) == r.symptom_code = f.symptom_code[1]
        Min(r) == r.start_ts >= f.start_ts_min[1]
        Max(r) == r.start_ts < f.start_ts_max[1]
        df1 == IF Truthy(f.equipment_id) THEN SelectSeq(wo, Eq) ELSE wo
        df2 == IF Truthy(f.product_line) THEN SelectSeq(df1, Pl) ELSE df1
        df3 == IF Truthy(f.symptom_code) THEN SelectSeq(df2, Sym) ELSE df2
        df4 == IF f.start_ts_min # None THEN SelectSeq(df3, Min) ELSE df3
        df5 == IF f.start_ts_max # None THEN SelectSeq(df4, Max) ELSE df4
    IN  Cardinality({df5[i].equipment_id : i \in 1..Len(df5)})

\* one pass of the loop of app.py after the blank and exit tests and the call
\* of extract_filters, whose outcome is extracted
main_loop_body_with(user, extracted, wo, g, env) ==
    LET f == extracted.value
        it == intent(user)
        tied == most_common_symptoms(wo, f)
        eq == top_equipment(wo, 1, NoFilters)
        tech == top_technicians(wo, 1, NoFilters)
    IN  IF extracted.raised THEN extracted
        ELSE IF it = "count_mentions"
        THEN Returned(maybe_llm(user, str(count_mentions(wo, extract_mention_keyword(user), f)),
                                g.USE_LLM, env))
        ELSE IF it = "count_incidents"
        THEN Returned(maybe_llm(user, str(count_incidents(wo, f)), g.USE_LLM, env))
        ELSE IF it = "count_distinct_equipment"
        THEN Returned(maybe_llm(user, str(InlineDistinctEquipment(wo, f)), g.USE_LLM, env))
        ELSE IF it = "count_distinct_technicians"
        THEN Returned(maybe_llm(user, str(count_distinct_technicians(wo, f)), g.USE_LLM, env))
        ELSE IF it = "most_common_symptom"
        THEN IF tied = <<>> THEN Returned(<<>>)
             ELSE IF Len(tied) = 1
             THEN Returned(maybe_llm(user, WithWorkOrders(tied[1][1], tied[1][2]),
                                     g.USE_LLM, env))
             ELSE Returned(maybe_llm(user, EachWithWorkOrders(tied, tied[1][2]),
                                     g.USE_LLM, env))
        ELSE IF it = "top_equipment"
        THEN IF eq = <<>> THEN Returned(<<>>)
             ELSE Returned(maybe_llm(user,
                                     WithWorkOrders(eq[1].equipment_id, eq[1].work_order_count),
                                     g.USE_LLM, env))
        ELSE IF it = "top_technician"
        THEN IF tech = <<>> THEN Returned(<<>>)
             ELSE Returned(maybe_llm(user,
                                     WithWorkOrders(tech[1].technician, tech[1].work_order_count),
                                     g.USE_LLM, env))
        ELSE Returned(<<>>)

\* one pass of the loop of app.py, after the blank and exit tests: the string
\* it prints, or the exception that ends the process
main_loop_body(user, wo, g, env) ==
    CHOOSE r \in {main_loop_body_with(user, extracted, wo, g, env) :
                     extracted \in {extract_filters(user, g)}} : TRUE

-----------------------------------------------------------------------------
(* Spec: an orchestrator started on a maintenance log and asked questions.  *)
(* The web process answers each question with answer_question and keeps    *)
(* serving when a request fails; the CLI process prints each answer and    *)
(* ends when a pass of its loop raises or the user types exit.             *)

HydraulicLeak == <<"H", "Y", "D", "R", "A", "U", "L", "I", "C", "_", "L", "E", "A", "K">>

\* a maintenance log: a leak handled in two updates, a noise on another
\* machine, and a later work order nobody is assigned to
SampleLog ==
    <<Event(1, E1, P1, HydraulicLeak, <<"L", "e", "a", "k", " ", "a", "t", " ", "p", "u", "m", "p">>, Al, Ok, Ts(2023, 7), Ts(2023, 7)),
      Event(1, E1, P1, HydraulicLeak, <<"L", "e", "a", "k", " ", "a", "t", " ", "p", "u", "m", "p">>, Bo, <<"s", "e", "a", "l">>, Ts(2023, 7), Ts(2023, 8)),
      Event(2, E2, P1, S1, <<"n", "o", "i", "s", "e">>, Al, <<>>, Ts(2023, 9), Ts(2023, 9)),
      Event(3, E1, P1, S1, <<"b", "e", "a", "r", "i", "n", "g", " ", "w", "o", "r", "n">>, <<>>, <<>>, Ts(2024, 1), Ts(2024, 1))>>

\* the orders in which a process can iterate a set
Orders(S) ==
    {q \in [1..Cardinality(S) -> S] : \A i, j \in 1..Cardinality(S) : i # j => q[i] # q[j]}

\* int(pd.to_datetime(work_orders["start_ts"]).dt.year.mode().iloc[0]): the
\* most frequent year, the smallest one on a tie
default_year(wo) ==
    LET YearOf(i) == wo[i].start_ts \div 12
        years == {YearOf(i) : i \in 1..Len(wo)}
        Freq(y) == Cardinality({i \in 1..Len(wo) : YearOf(i) = y})
        modes == {y \in years : \A z \in years : Freq(z) <= Freq(y)}
    IN  CHOOSE y \in modes : \A z \in modes : y <= z

\* the server does not answer
Unreachable == [tags |-> <<FALSE, FALSE>>, generate |-> Raised("ConnectionError")]

\* what the local Ollama server can do during one answer: be down, go down
\* after the first probe, fail the generation, answer blank, answer a sentence
LlmEnvs ==
    {Unreachable,
     [tags |-> <<TRUE, FALSE>>, generate |-> Raised("ConnectionError")],
     [tags |-> <<TRUE, TRUE>>, generate |-> Raised("HTTPError")],
     [tags |-> <<TRUE, TRUE>>, generate |-> Returned(<<" ">>)],
     [tags |-> <<TRUE, TRUE>>, generate |-> Returned(<<" ", "I", "t", " ", "i", "s", " ", "s", "o", ".", "\n">>)]}

\* the server is contacted only when USE_LLM is set
EnvsFor(g) == IF g.USE_LLM THEN LlmEnvs ELSE {Unreachable}

HeadsQ ==
    {<<>>,
     <<"H", "o", "w", " ", "m", "a", "n", "y", " ", "i", "n", "c", "i", "d", "e", "n", "t", "s">>,
     <<"H", "o", "w", " ", "m", "a", "n", "y", " ", "m", "e", "n", "t", "i", "o", "n", " ", "'", "L", "e", "a", "k", "'">>,
     <<"h", "o", "w", " ", "m", "a", "n", "y", " ", "d", "i", "f", "f", "e", "r", "e", "n", "t", " ", "t", "e", "c", "h", "n", "i", "c", "i", "a", "n", "s">>,
     <<"H", "o", "w", " ", "m", "a", "n", "y", " ", "d", "i", "s", "t", "i", "n", "c", "t", " ", "e", "q", "u", "i", "p", "m", "e", "n", "t">>,
     <<"M", "o", "s", "t", " ", "c", "o", "m", "m", "o", "n", " ", "s", "y", "m", "p", "t", "o", "m">>,
     <<"w", "h", "i", "c", "h", " ", "e", "q", "u", "i", "p", "m", "e", "n", "t", " ", "h", "a", "s", " ", "t", "h", "e", " ", "m", "o", "s", "t", " ", "i", "n", "c", "i", "d", "e", "n", "t", "s">>,
     <<"W", "h", "i", "c", "h", " ", "t", "e", "c", "h", "n", "i", "c", "i", "a", "n", " ", "h", "a", "n", "d", "l", "e", "d", " ", "t", "h", "e", " ", "m", "o", "s", "t">>,
     <<"w", "h", "i", "c", "h", " ", "o", "n", "e", " ", "h", "a", "d", " ", "m", "o", "r", "e">>,
     <<"W", "h", "a", "t", " ", "a", "b", "o", "u", "t">>,
     <<" ">>,
     <<"e", "x", "i", "t">>}

ScopesQ ==
    {<<"i", "n", " ", "J", "u", "l", "y">>,
     <<"i", "n", " ", "s", "e", "p", "e", "m", "b", "e", "r">>,
     <<"H", "2", " ", "2", "0", "2", "4">>,
     <<"f", "o", "r", " ", "E", "1">>,
     <<"h", "y", "d", "r", "a", "u", "l", "i", "c", " ", "l", "e", "a", "k">>,
     <<" ">>}

\* the questions: a head followed by at most n scopes
RECURSIVE QuestionsOf(_)
QuestionsOf(n) ==
    IF n = 0 THEN HeadsQ
    ELSE LET shorter == QuestionsOf(n - 1)
         IN  shorter \cup {t \o <<" ">> \o g : t \in shorter, g \in ScopesQ}

Questions == QuestionsOf(MaxScopes)

Init ==
    /\ events = SampleLog
    /\ work_orders = build_work_orders(events)
    /\ \E front \in {"web", "cli"}, use_llm \in BOOLEAN,
          eqs \in Orders({work_orders[i].equipment_id : i \in 1..Len(work_orders)}),
          pls \in Orders({work_orders[i].product_line : i \in 1..Len(work_orders)}),
          syms \in Orders({work_orders[i].symptom_code : i \in 1..Len(work_orders)}) :
            app = [front |-> front, known_equipment |-> eqs, known_product_lines |-> pls,
                   known_symptoms |-> syms, default_year |-> default_year(work_orders),
                   USE_LLM |-> use_llm]
    /\ call = NoCall
    /\ pc = "ready"

\* the web process answers one question; a request that raises is answered
\* with an error and the process keeps serving
AnswerQuestion ==
    /\ pc = "ready"
    /\ app.front = "web"
    /\ \E question \in Questions, env \in EnvsFor(app) :
          call' = [fn |-> "answer_question", question |-> question,
                   result |-> answer_question(question, work_orders, app, env)]
    /\ pc' = "returned"
    /\ UNCHANGED <<events, work_orders, app>>

ExitWords == {<<"e", "x", "i", "t">>, <<"q", "u", "i", "t">>}

\* one pass of the CLI loop: a blank line is skipped, exit or quit ends the
\* loop, any other line is answered and the answer printed
MainLoop ==
    /\ pc = "ready"
    /\ app.front = "cli"
    /\ \E line \in Questions, env \in EnvsFor(app) :
          \E user \in {Strip(line)} :
              IF user = <<>> THEN UNCHANGED <<call, pc>>
              ELSE IF Lower(user) \in ExitWords
              THEN /\ call' = [fn |-> "main", question |-> line, result |-> Returned(<<>>)]
                   /\ pc' = "exited"
              ELSE \E printed \in {main_loop_body(user, work_orders, app, env)} :
                      /\ call' = [fn |-> "main", question |-> line, result |-> printed]
                      /\ pc' = IF printed.raised THEN "crashed" ELSE "returned"
    /\ UNCHANGED <<events, work_orders, app>>

Next == AnswerQuestion \/ MainLoop \/ Return

Spec == Init /\ [][Next]_vars

\* an orchestrator has just handled a question
Handled == pc \in {"returned", "crashed"} /\ call.fn \in {"answer_question", "main"}

\* C9 as stated: answer_question returns "" for an empty or whitespace-only
\* question, and for every other question it returns a string without raising.
C9_NeverRaises ==
    (pc = "returned" /\ call.fn = "answer_question")
        => /\ ~call.result.raised
           /\ Strip(call.question) = <<>> => call.result.value = <<>>

NumericIntents ==
    {"count_mentions", "count_incidents", "count_distinct_technicians",
     "count_distinct_equipment"}

\* the count the aggregation function matching a numeric intent gives
CountFor(it, user, wo, f) ==
    IF it = "count_mentions" THEN count_mentions(wo, extract_mention_keyword(user), f)
    ELSE IF it = "count_incidents" THEN count_incidents(wo, f)
    ELSE IF it = "count_distinct_technicians" THEN count_distinct_technicians(wo, f)
    ELSE count_distinct_equipment(wo, f)

\* C10 as stated: a question of a numeric intent whose filter is extracted is
\* answered, by either orchestrator, with the decimal string of the count the
\* matching aggregation function gives for the extracted filter.
C10_NumericIntents ==
    LET user == Strip(call.question)
        extracted == extract_filters(user, app)
    IN  (Handled /\ user # <<>> /\ intent(user) \in NumericIntents /\ ~extracted.raised)
            => call.result = Returned(str(CountFor(intent(user), user, work_orders,
                                                   extracted.value)))

\* intents no branch of an orchestrator handles
UnhandledIntents == {"unknown", "compare_equipment", "what_about"}

\* the aggregation a question's intent calls gives no rows
EmptyAggregation(it, wo, extracted) ==
    \/ /\ it = "most_common_symptom"
       /\ ~extracted.raised
       /\ filter_work_orders(wo, extracted.value) = <<>>
    \/ it = "top_equipment" /\ wo = <<>>
    \/ it = "top_technician" /\ \A i \in 1..Len(wo) : wo[i].technicians = <<>>

\* C11 as stated: a question whose intent is unknown, compare_equipment or
\* what_about, or whose intent's aggregation result is empty, is answered
\* with the empty string, never with an error.
C11_EmptyAnswers ==
    LET user == Strip(call.question)
        extracted == extract_filters(user, app)
    IN  (/\ Handled
         /\ user # <<>>
         /\ \/ intent(user) \in UnhandledIntents
            \/ EmptyAggregation(intent(user), work_orders, extracted))
            => call.result = Returned(<<>>)

\* the answer of a top_equipment or top_technician question computed over the
\* whole table: the first row of top_equipment / top_technicians with n = 1 and
\* the all-open filter, as "<id> with <n> work orders"
GlobalTop(it, wo) ==
    LET eq == top_equipment(wo, 1, NoFilters)
        tech == top_technicians(wo, 1, NoFilters)
    IN  IF it = "top_equipment"
        THEN WithWorkOrders(eq[1].equipment_id, eq[1].work_order_count)
        ELSE WithWorkOrders(tech[1].technician, tech[1].work_order_count)

\* C12: a question of intent top_equipment or top_technician for which a
\* filter is extracted is answered from the whole table, whatever equipment,
\* product line, symptom or date range the filter holds: the answer is the
\* global "<id> with <n> work orders" (paraphrased or not when USE_LLM is set).
C12_GlobalTop ==
    LET user == Strip(call.question)
        extracted == extract_filters(user, app)
    IN  (/\ Handled
         /\ user # <<>>
         /\ intent(user) \in {"top_equipment", "top_technician"}
         /\ ~extracted.raised)
            => \E env \in EnvsFor(app) :
                   call.result = Returned(maybe_llm(user, GlobalTop(intent(user), work_orders),
                                                    app.USE_LLM, env))

\* a top_equipment question that names a month in which the busiest machine
\* has fewer work orders got the global answer
C12_Witness ==
    LET user == Strip(call.question)
        extracted == extract_filters(user, app)
    IN  /\ Handled
        /\ ~app.USE_LLM
        /\ intent(user) = "top_equipment"
        /\ ~extracted.raised
        /\ extracted.value.start_ts_min # None
        /\ top_equipment(work_orders, 1, extracted.value) # top_equipment(work_orders, 1, NoFilters)
        /\ call.result = Returned(GlobalTop("top_equipment", work_orders))

\* answer_question of run_tests.py
run_tests_answer_question(question, wo, g, env) ==
    CHOOSE r \in {answer_question_with(user, extracted, wo, g, env) :
                     user \in {Strip(question)},
                     extracted \in {IF Strip(question) = <<>> THEN Returned(NoFilters)
                                    ELSE extract_filters(Strip(question), g)}} : TRUE

\* C27 as stated: for a question handled by an orchestrator, the CLI loop,
\* answer_question of webapp.py and answer_question of run_tests.py give the
\* same answer on the same table, and the distinct-equipment count the CLI
\* computes inline is count_distinct_equipment with the same Filter.
C27_SameAnswer ==
    (Handled /\ Strip(call.question) # <<>> /\ Lower(Strip(call.question)) \notin ExitWords)
        => \A env \in EnvsFor(app) :
              \A cli \in {main_loop_body(Strip(call.question), work_orders, app, env)} :
                  /\ answer_question(call.question, work_orders, app, env) = cli
                  /\ run_tests_answer_question(call.question, work_orders, app, env) = cli
                  /\ \A extracted \in {extract_filters(Strip(call.question), app)} :
                        ~extracted.raised
                            => InlineDistinctEquipment(work_orders, extracted.value)
                                 = count_distinct_equipment(work_orders, extracted.value)

\* the symptom codes of the rows a Filter keeps, and how often each occurs
SymptomCodes(wo, f) ==
    {filter_work_orders(wo, f)[i].symptom_code : i \in 1..Len(filter_work_orders(wo, f))}

SymptomFrequency(wo, f, code) ==
    Cardinality({i \in 1..Len(filter_work_orders(wo, f)) :
                    filter_work_orders(wo, f)[i].symptom_code = code})

MostFrequent(wo, f) ==
    {c \in SymptomCodes(wo, f) :
        \A d \in SymptomCodes(wo, f) : SymptomFrequency(wo, f, d) <= SymptomFrequency(wo, f, c)}

Alphabetical(S) ==
    CHOOSE s \in [1..Cardinality(S) -> S] :
        \A i, j \in 1..Cardinality(S) : i < j => StrLess(s[i], s[j])

RECURSIVE Joined(_, _)
Joined(names, sep) ==
    IF Len(names) = 1 THEN names[1]
    ELSE names[1] \o sep \o Joined(Tail(names), sep)

WorkOrdersText == <<" ", "w", "o", "r", "k", " ", "o", "r", "d", "e", "r", "s">>

SymptomAnswer(wo, f) ==
    LET most == MostFrequent(wo, f)
        n == SymptomFrequency(wo, f, CHOOSE c \in most : TRUE)
    IN  IF most = {} THEN <<>>
        ELSE IF Cardinality(most) = 1
        THEN (CHOOSE c \in most : TRUE) \o <<" ", "w", "i", "t", "h", " ">> \o str(n) \o WorkOrdersText
        ELSE Joined(Alphabetical(most), <<" ", "a", "n", "d", " ">>) \o <<",", " ", "e", "a", "c", "h", " ", "w", "i", "t", "h", " ">> \o str(n) \o WorkOrdersText

\* C19: when a question of intent most_common_symptom is answered, the
\* answer is '<code> with <n> work orders' if one code alone has the highest
\* frequency among the rows the extracted Filter keeps, and otherwise all the
\* codes sharing the highest frequency, in alphabetical order, joined with
\* ' and ' and followed by ', each with <n> work orders' (the text may then
\* be paraphrased by the language model).
C19_MostCommonSymptom ==
    LET user == Strip(call.question)
        extracted == extract_filters(user, app)
    IN  (Handled /\ user # <<>> /\ intent(user) = "most_common_symptom" /\ ~extracted.raised)
            => \E env \in EnvsFor(app) :
                  call.result = Returned(maybe_llm(user, SymptomAnswer(work_orders, extracted.value),
                                                   app.USE_LLM, env))

C19_Witness ==
    /\ Handled
    /\ ~app.USE_LLM
    /\ Strip(call.question) = <<"M", "o", "s", "t", " ", "c", "o", "m", "m", "o", "n", " ", "s", "y", "m", "p", "t", "o", "m", " ", "f", "o", "r", " ", "E", "1">>
    /\ Cardinality(MostFrequent(work_orders, extract_filters(Strip(call.question), app).value)) = 2
    /\ call.result = Returned(<<"H", "Y", "D", "R", "A", "U", "L", "I", "C", "_", "L", "E", "A", "K", " ", "a", "n", "d", " ", "S", "1", ",", " ", "e", "a", "c", "h", " ", "w", "i", "t", "h", " ", "1", " ", "w", "o", "r", "k", " ", "o", "r", "d", "e", "r", "s">>)

-----------------------------------------------------------------------------
(* SpecExtract: extract_filters applied to texts that name months, years    *)
(* and half-years, with either default year.                               *)

FragmentsX ==
    {<<"i", "n", " ", "J", "u", "l", "y">>,
     <<"D", "e", "c">>,
     <<"s", "e", "p", "t">>,
     <<"s", "e", "p", "e", "m", "b", "e", "r">>,
     <<"2", "0", "2", "4">>,
     <<"2", "0", "3", "1">>,
     <<"f", "i", "r", "s", "t", " ", "h", "a", "l", "f">>,
     <<"H", "2">>,
     <<"i", "n", "c", "i", "d", "e", "n", "t", "s">>}

DefaultYearsX == {2023, 2024}

InitExtract ==
    /\ events = SampleLog
    /\ work_orders = build_work_orders(events)
    /\ \E y \in DefaultYearsX,
          eqs \in Orders({work_orders[i].equipment_id : i \in 1..Len(work_orders)}),
          pls \in Orders({work_orders[i].product_line : i \in 1..Len(work_orders)}),
          syms \in Orders({work_orders[i].symptom_code : i \in 1..Len(work_orders)}) :
            app = [front |-> "none", known_equipment |-> eqs, known_product_lines |-> pls,
                   known_symptoms |-> syms, default_year |-> y, USE_LLM |-> FALSE]
    /\ call = NoCall
    /\ pc = "ready"

CallExtractFilters ==
    /\ pc = "ready"
    /\ \E q \in TextsOf(FragmentsX, MaxFragsX) :
          call' = [fn |-> "extract_filters", question |-> q,
                   result |-> extract_filters(q, app)]
    /\ pc' = "returned"
    /\ UNCHANGED <<events, work_orders, app>>

NextExtract == CallExtractFilters \/ Return

SpecExtract == InitExtract /\ [][NextExtract]_vars

\* the words of a text: the maximal runs of letters, digits and underscores,
\* as <<first, last>> positions
Tokens(s) ==
    {t \in (1..Len(s)) \X (1..Len(s)) :
        /\ t[1] <= t[2]
        /\ \A k \in t[1]..t[2] : IsWord(s[k])
        /\ t[1] = 1 \/ ~IsWord(s[t[1] - 1])
        /\ t[2] = Len(s) \/ ~IsWord(s[t[2] + 1])}

\* the word t of s, lower-cased
WordOf(s, t) == Lower(SubSeq(s, t[1], t[2]))

\* the words of s that are the name of a calendar month, full or abbreviated
MonthNames(s) ==
    {t \in Tokens(s) : \E e \in _MONTH_MAP : WordOf(s, t) = e[1]}

\* the number of the month the word t names
MonthOf(s, t) == (CHOOSE e \in _MONTH_MAP : e[1] = WordOf(s, t))[2]

\* the word t of s is followed, after whitespace only, by the word "half"
ThenHalf(s, t) ==
    \E u \in Tokens(s) :
        /\ u[1] > t[2] + 1
        /\ \A k \in (t[2] + 1)..(u[1] - 1) : IsSpace(s[k])
        /\ WordOf(s, u) = <<"h", "a", "l", "f">>

\* s holds a first-half phrase: first half, 1st half, H1
FirstHalfPhrase(s) ==
    \E t \in Tokens(s) :
        \/ WordOf(s, t) = <<"h", "1">>
        \/ WordOf(s, t) \in {<<"f", "i", "r", "s", "t">>, <<"1", "s", "t">>} /\ ThenHalf(s, t)

\* s holds a second-half phrase: second half, 2nd half, H2
SecondHalfPhrase(s) ==
    \E t \in Tokens(s) :
        \/ WordOf(s, t) = <<"h", "2">>
        \/ WordOf(s, t) \in {<<"s", "e", "c", "o", "n", "d">>, <<"2", "n", "d">>} /\ ThenHalf(s, t)

\* the words of s of the form 20dd
YearTokens(s) ==
    {t \in Tokens(s) :
        /\ t[2] = t[1] + 3
        /\ s[t[1]] = "2" /\ s[t[1] + 1] = "0"
        /\ IsDigit(s[t[1] + 2]) /\ IsDigit(s[t[1] + 3])}

\* the first of a non-empty set of words
FirstToken(T) == CHOOSE t \in T : \A u \in T : t[1] <= u[1]

\* the year a text refers to: its first 20dd word, else the default year
ReferencedYear(s, default) ==
    IF YearTokens(s) = {} THEN default
    ELSE LET t == FirstToken(YearTokens(s))
         IN  2000 + 10 * (Ord[s[t[1] + 2]] - Ord["0"]) + (Ord[s[t[1] + 3]] - Ord["0"])

\* C13 as stated: for a text that names a calendar month and holds no
\* half-year phrase, extract_filters returns a filter whose start_ts_min is
\* the first day of the (first) month named and whose start_ts_max is the
\* first day of the following month, in the referenced year.
C13_MonthRange ==
    LET q == call.question
        y == ReferencedYear(q, app.default_year)
        m == MonthOf(q, FirstToken(MonthNames(q)))
    IN  (/\ call.fn = "extract_filters"
         /\ MonthNames(q) # {}
         /\ ~FirstHalfPhrase(q) /\ ~SecondHalfPhrase(q))
            => /\ ~call.result.raised
               /\ call.result.value.start_ts_min = Some(Ts(y, m))
               /\ call.result.value.start_ts_max =
                      Some(IF m = 12 THEN Ts(y + 1, 1) ELSE Ts(y, m + 1))

\* C14 as stated: a first-half phrase gives [Jan 1, Jul 1) and a second-half
\* phrase [Jul 1, Jan 1 of the next year) of the referenced year, also when
\* the text names a month; a text with neither a half-year phrase nor a month
\* name leaves both bounds unset.
C14_HalfYearFirst ==
    LET q == call.question
        y == ReferencedYear(q, app.default_year)
        f == call.result.value
    IN  call.fn = "extract_filters"
            => /\ ~call.result.raised
               /\ FirstHalfPhrase(q)
                     => f.start_ts_min = Some(Ts(y, 1)) /\ f.start_ts_max = Some(Ts(y, 7))
               /\ (~FirstHalfPhrase(q) /\ SecondHalfPhrase(q))
                     => f.start_ts_min = Some(Ts(y, 7)) /\ f.start_ts_max = Some(Ts(y + 1, 1))
               /\ (~FirstHalfPhrase(q) /\ ~SecondHalfPhrase(q) /\ MonthNames(q) = {})
                     => f.start_ts_min = None /\ f.start_ts_max = None

\* C26 as stated: every string the month pattern matches in a question is
\* a key of _MONTH_MAP, and the month lookup of extract_filters never fails.
C26_MonthLookup ==
    (pc = "returned" /\ call.fn = "extract_filters")
        => /\ \A i \in 1..Len(call.question) :
                 \A w \in MonthAt(Lower(call.question), i) : \E e \in _MONTH_MAP : e[1] = w
           /\ ~call.result.raised

-----------------------------------------------------------------------------
(* SpecLlm: maybe_llm and synthesize_with_llm applied to every answer,     *)
(* setting of USE_LLM and behaviour of the Ollama server of the bounded    *)
(* domain.  In env, tags[1] is the probe maybe_llm makes and tags[2] the   *)
(* probe synthesize_with_llm makes.                                        *)

MaxFragsL == 2

FragmentsL ==
    {<<"4", "2">>,
     <<"0">>,
     <<" ", "7", "\n">>,
     <<"E", "1", " ", "w", "i", "t", "h", " ", "2", " ", "w", "o", "r", "k", " ", "o", "r", "d", "e", "r", "s">>,
     <<"A", "l">>,
     <<"-", "1">>,
     <<"4", ".", "2">>}

QuestionsL ==
    {<<>>,
     <<"H", "o", "w", " ", "m", "a", "n", "y", " ", "i", "n", "c", "i", "d", "e", "n", "t", "s">>}

\* POST /api/generate: connection refused, timeout, error status, a body
\* that is not JSON, a JSON body that is not an object, a JSON object without
\* "response" or with an empty one, a blank response, a sentence
GenerateL ==
    {Raised("ConnectionError"), Raised("Timeout"), Raised("HTTPError"),
     Raised("JSONDecodeError"), Raised("AttributeError"),
     Returned(<<>>), Returned(<<" ", "\n">>),
     Returned(<<" ", "I", "t", " ", "i", "s", " ", "s", "o", ".", "\n">>)}

EnvsL == [tags : {<<FALSE, FALSE>>, <<TRUE, FALSE>>, <<TRUE, TRUE>>}, generate : GenerateL]

InitLlm ==
    /\ events = <<>>
    /\ work_orders = <<>>
    /\ \E u \in BOOLEAN : app = [NoApp EXCEPT !.USE_LLM = u]
    /\ call = NoCall
    /\ pc = "ready"

CallMaybeLlm ==
    /\ pc = "ready"
    /\ \E q \in QuestionsL, a \in TextsOf(FragmentsL, MaxFragsL), env \in EnvsL :
          call' = [fn |-> "maybe_llm", question |-> q, answer |-> a, env |-> env,
                   result |-> maybe_llm(q, a, app.USE_LLM, env),
                   requests |-> maybe_llm_requests(a, app.USE_LLM, env)]
    /\ pc' = "returned"
    /\ UNCHANGED <<events, work_orders, app>>

CallSynthesizeWithLlm ==
    /\ pc = "ready"
    /\ \E q \in QuestionsL, a \in TextsOf(FragmentsL, MaxFragsL), env \in EnvsL :
          call' = [fn |-> "synthesize_with_llm", question |-> q, answer |-> a, env |-> env,
                   result |-> synthesize_with_llm(q, a, env),
                   requests |-> synthesize_with_llm_requests(env)]
    /\ pc' = "returned"
    /\ UNCHANGED <<events, work_orders, app>>

NextLlm == CallMaybeLlm \/ CallSynthesizeWithLlm \/ Return

SpecLlm == InitLlm /\ [][NextLlm]_vars

Generations(reqs) == Cardinality({i \in 1..Len(reqs) : reqs[i] = PostGenerate})

\* the endpoint is unreachable or times out, answers with an error status,
\* a malformed body or an empty response
EndpointFails(env) ==
    \/ ~env.tags[1]
    \/ ~env.tags[2]
    \/ env.generate.raised
    \/ Strip(env.generate.value) = <<>>

IsText(v) == DOMAIN v = 1..Len(v) /\ \A i \in 1..Len(v) : v[i] \in STRING

\* C15: maybe_llm and synthesize_with_llm always return a string, never an
\* exception, and never an empty one for a non-empty answer; whenever the
\* endpoint is unreachable, times out, answers with an error status, a
\* malformed body or an empty response they return the deterministic answer
\* unchanged, having sent at most one generation request.
C15_Fallback ==
    (pc = "returned" /\ call.fn \in {"maybe_llm", "synthesize_with_llm"})
        => /\ IsText(call.result)
           /\ call.answer # <<>> => call.result # <<>>
           /\ Generations(call.requests) <= 1
           /\ EndpointFails(call.env) => call.result = call.answer

C15_Witness ==
    /\ pc = "returned"
    /\ call.fn = "maybe_llm"
    /\ app.USE_LLM
    /\ call.env.tags = <<TRUE, TRUE>>
    /\ call.env.generate = Raised("HTTPError")
    /\ call.answer = <<"E", "1", " ", "w", "i", "t", "h", " ", "2", " ", "w", "o", "r", "k", " ", "o", "r", "d", "e", "r", "s">>
    /\ call.result = call.answer
    /\ Generations(call.requests) = 1

DigitsOnly(s) ==
    s # <<>> /\ \A i \in 1..Len(s) : s[i] \in {"0", "1", "2", "3", "4", "5", "6", "7", "8", "9"}

\* C16: for an answer that is empty or made of decimal digits only,
\* maybe_llm returns the answer unchanged and sends no request to the
\* language model, whether or not USE_LLM is set and the server answers.
C16_NumericBypass ==
    (pc = "returned" /\ call.fn = "maybe_llm"
        /\ (call.answer = <<>> \/ DigitsOnly(call.answer)))
        => call.result = call.answer /\ call.requests = <<>>

C16_Witness ==
    /\ pc = "returned"
    /\ call.fn = "maybe_llm"
    /\ app.USE_LLM
    /\ call.env.tags = <<TRUE, TRUE>>
    /\ ~call.env.generate.raised
    /\ Strip(call.env.generate.value) # <<>>
    /\ call.answer = <<"4", "2">>
    /\ call.result = <<"4", "2">>
    /\ call.requests = <<>>

-----------------------------------------------------------------------------
(* SpecSession: one process answering a sequence of questions with the     *)
(* language model disabled.  app.state is the ConversationState the        *)
(* process creates at startup, app.history the history of the browser      *)
(* session the web process serves (the time stamp of an entry is left      *)
(* out), app.served the number of questions the process has handled, and   *)
(* app.submitted the non-blank questions the browser has submitted since   *)
(* its last clear request.                                                 *)

MaxTurns == 2

HistoryKept == 30

ConversationState ==
    [filters |-> NoFilters, last_count_question_type |-> None,
     last_two_equipment_counts |-> <<>>]

QuestionsS ==
    {<<"H", "o", "w", " ", "m", "a", "n", "y", " ", "i", "n", "c", "i", "d", "e", "n", "t", "s", " ", "f", "o", "r", " ", "E", "1">>,
     <<"H", "o", "w", " ", "m", "a", "n", "y", " ", "i", "n", "c", "i", "d", "e", "n", "t", "s">>,
     <<"W", "h", "a", "t", " ", "a", "b", "o", "u", "t", " ", "E", "2">>,
     <<"M", "o", "s", "t", " ", "c", "o", "m", "m", "o", "n", " ", "s", "y", "m", "p", "t", "o", "m">>,
     <<"H", "o", "w", " ", "m", "a", "n", "y", " ", "i", "n", "c", "i", "d", "e", "n", "t", "s", " ", "i", "n", " ", "s", "e", "p", "e", "m", "b", "e", "r">>,
     <<" ">>,
     <<"e", "x", "i", "t">>}

\* hist.append({"q": q, "a": a}); hist = hist[-30:]
push_history(hist, q, a) ==
    LET appended == Append(hist, [q |-> q, a |-> a])
    IN  SubSeq(appended, IF Len(appended) > HistoryKept THEN Len(appended) - HistoryKept + 1 ELSE 1,
               Len(appended))

InitSession ==
    /\ events = SampleLog
    /\ work_orders = build_work_orders(events)
    /\ \E front \in {"web", "cli"},
          eqs \in Orders({work_orders[i].equipment_id : i \in 1..Len(work_orders)}),
          pls \in Orders({work_orders[i].product_line : i \in 1..Len(work_orders)}),
          syms \in Orders({work_orders[i].symptom_code : i \in 1..Len(work_orders)}) :
            app = [front |-> front, known_equipment |-> eqs, known_product_lines |-> pls,
                   known_symptoms |-> syms, default_year |-> default_year(work_orders),
                   USE_LLM |-> FALSE, state |-> ConversationState, history |-> <<>>,
                   served |-> 0, submitted |-> <<>>]
    /\ call = NoCall
    /\ pc = "ready"

\* POST /: a blank question is ignored; any other is answered and pushed on
\* the history; a request whose answer raises leaves the history as it was
Home ==
    /\ pc = "ready"
    /\ app.front = "web"
    /\ app.served < MaxTurns
    /\ \E form \in QuestionsS, env \in EnvsFor(app) :
          \E question \in {Strip(form)} :
              IF question = <<>> THEN UNCHANGED <<call, pc, app>>
              ELSE \E answer \in {answer_question(question, work_orders, app, env)} :
                      /\ call' = [fn |-> "home", question |-> question, result |-> answer]
                      /\ pc' = "returned"
                      /\ app' = [app EXCEPT !.served = @ + 1,
                                            !.submitted = Append(@, question),
                                            !.history = IF answer.raised THEN @
                                                        ELSE push_history(@, question, answer.value)]
    /\ UNCHANGED <<events, work_orders>>

\* POST /clear
ClearHistory ==
    /\ pc = "ready"
    /\ app.front = "web"
    /\ app' = [app EXCEPT !.history = <<>>, !.submitted = <<>>]
    /\ UNCHANGED <<events, work_orders, call, pc>>

\* one pass of the CLI loop on a line of QuestionsS
MainLoopS ==
    /\ pc = "ready"
    /\ app.front = "cli"
    /\ \E line \in QuestionsS, env \in EnvsFor(app) :
          \E user \in {Strip(line)} :
              IF user = <<>> THEN UNCHANGED <<call, pc>>
              ELSE IF Lower(user) \in ExitWords
              THEN /\ call' = [fn |-> "main", question |-> line, result |-> Returned(<<>>)]
                   /\ pc' = "exited"
              ELSE \E printed \in {main_loop_body(user, work_orders, app, env)} :
                      /\ call' = [fn |-> "main", question |-> line, result |-> printed]
                      /\ pc' = IF printed.raised THEN "crashed" ELSE "returned"
    /\ UNCHANGED <<events, work_orders, app>>

NextSession == Home \/ ClearHistory \/ MainLoopS \/ Return

SpecSession == InitSession /\ [][NextSession]_vars

\* the process as it is before its first question
AtStart(g) == [g EXCEPT !.state = ConversationState, !.history = <<>>]

C18_StateHoldsFilter ==
    (pc = "returned" /\ call.fn \in {"home", "main"} /\ ~call.result.raised)
        => app.state.filters = extract_filters(Strip(call.question), app).value

-----------------------------------------------------------------------------
(* SpecHistory: the web process serving a browser session that arrives     *)
(* with the history of earlier requests in its cookie.                     *)

\* two entries an earlier request on the sample log has pushed
EarlierEntries ==
    <<[q |-> <<"H", "o", "w", " ", "m", "a", "n", "y", " ", "i", "n", "c", "i", "d", "e", "n", "t", "s">>, a |-> <<"3">>],
      [q |-> <<"H", "o", "w", " ", "m", "a", "n", "y", " ", "i", "n", "c", "i", "d", "e", "n", "t", "s", " ", "f", "o", "r", " ", "E", "1">>, a |-> <<"2">>]>>

\* the histories of n earlier questions, asked in turn
Earlier(n) ==
    {[i \in 1..n |-> EarlierEntries[((i + first) % 2) + 1]] : first \in 0..1}

InitHistory ==
    /\ events = SampleLog
    /\ work_orders = build_work_orders(events)
    /\ \E n \in {0, HistoryKept - 1, HistoryKept},
          eqs \in Orders({work_orders[i].equipment_id : i \in 1..Len(work_orders)}),
          pls \in Orders({work_orders[i].product_line : i \in 1..Len(work_orders)}),
          syms \in Orders({work_orders[i].symptom_code : i \in 1..Len(work_orders)}) :
            \E hist \in Earlier(n) :
                app = [front |-> "web", known_equipment |-> eqs, known_product_lines |-> pls,
                       known_symptoms |-> syms, default_year |-> default_year(work_orders),
                       USE_LLM |-> FALSE, state |-> ConversationState, history |-> hist,
                       served |-> 0, submitted |-> [i \in 1..n |-> hist[i].q]]
    /\ call = NoCall
    /\ pc = "ready"

NextHistory == Home \/ ClearHistory \/ Return

SpecHistory == InitHistory /\ [][NextHistory]_vars

\* the last n elements of s, all of s when it has fewer
LastOf(s, n) == SubSeq(s, IF Len(s) > n THEN Len(s) - n + 1 ELSE 1, Len(s))

\* C28 as stated: the history of a session holds at most 30 entries, which
\* are the last (up to 30) non-blank questions submitted since the most
\* recent clear, in the order of submission, each with its answer; a blank
\* submission leaves it unchanged and a clear leaves it empty.
C28_History ==
    /\ Len(app.history) <= HistoryKept
    /\ [i \in 1..Len(app.history) |-> app.history[i].q] = LastOf(app.submitted, HistoryKept)
    /\ (pc = "returned" /\ call.fn = "home")
          => app.history[Len(app.history)] = [q |-> call.question, a |-> call.result.value]

-----------------------------------------------------------------------------
(* SpecKeyword: extract_mention_keyword applied to every text of the       *)
(* bounded domain.                                                         *)

MaxFragsK == 2

FragmentsK ==
    {<<"'", "L", "e", "a", "k", "'">>,
     <<"\"", " ", "o", "i", "l", " ", "\"">>,
     <<"'", "x", "\"">>,
     <<"l", "e", "a", "k">>,
     <<"B", "e", "a", "r", "i", "n", "g">>,
     <<"m", "e", "n", "t", "i", "o", "n", "s", " ", "t", "h", "e", " ", "p", "u", "m", "p">>,
     <<"c", "o", "n", "t", "a", "i", "n", "i", "n", "g", " ", "a", "p", "p", "l", "e">>,
     <<"c", "o", "n", "t", "a", "i", "n">>,
     <<"n", "o", "i", "s", "e">>,
     <<"p", "u", "m", "p", "'", "s">>,
     <<"m", "e", "n", "t", "i", "o", "n", "s", " ", "a", "n", " ", "o", "i", "l">>,
     <<"'", "'">>}

InitKeyword ==
    /\ events = <<>>
    /\ work_orders = <<>>
    /\ app = NoApp
    /\ call = NoCall
    /\ pc = "ready"

CallExtractMentionKeyword ==
    /\ pc = "ready"
    /\ \E q \in TextsOf(FragmentsK, MaxFragsK) :
          call' = [fn |-> "extract_mention_keyword", question |-> q,
                   result |-> extract_mention_keyword(q)]
    /\ pc' = "returned"
    /\ UNCHANGED <<events, work_orders, app>>

NextKeyword == CallExtractMentionKeyword \/ Return

SpecKeyword == InitKeyword /\ [][NextKeyword]_vars

\* <<i, j>>: a quote character at i, one at j, and between them at least
\* one character and no quote character
QuotePairs(q) ==
    {p \in (1..Len(q)) \X (1..Len(q)) :
        /\ p[1] + 1 < p[2]
        /\ q[p[1]] \in {"'", "\""} /\ q[p[2]] \in {"'", "\""}
        /\ \A k \in (p[1] + 1)..(p[2] - 1) : q[k] \notin {"'", "\""}}

\* the pairs whose two quote characters are the same
MatchingQuotePairs(q) == {p \in QuotePairs(q) : q[p[1]] = q[p[2]]}

Inside(q, p) == SubSeq(q, p[1] + 1, p[2] - 1)

FirstPair(P) == CHOOSE p \in P : \A o \in P : p[1] <= o[1]

LeakWord == <<"l", "e", "a", "k">>

BearingWord == <<"b", "e", "a", "r", "i", "n", "g">>

\* steps (b) to (e): 'leak', else 'bearing', else the word captured after
\* a mention verb, else the empty string
UnquotedKeyword(q) ==
    LET ql == Lower(q)
        captured == {k \in 1..Len(ql) : MentionAt(ql, k) # <<>>}
    IN  IF Contains(LeakWord, ql) THEN LeakWord
        ELSE IF Contains(BearingWord, ql) THEN BearingWord
        ELSE IF captured # {} THEN MentionAt(ql, Leftmost(captured))
        ELSE <<>>

CalledKeyword == pc = "returned" /\ call.fn = "extract_mention_keyword"

\* C20 as stated: a text holding text inside matching quote characters gives
\* that text verbatim; any other text gives 'leak', else 'bearing', else the
\* captured word, else the empty string.
C20_AsStated ==
    CalledKeyword
        => IF MatchingQuotePairs(call.question) # {}
           THEN call.result = Inside(call.question, FirstPair(MatchingQuotePairs(call.question)))
           ELSE call.result = UnquotedKeyword(call.question)

\* C20: extract_mention_keyword resolves in a fixed order: (a) a text holding
\* a quote character (' or "), then one or more characters that are not
\* quote characters, then a quote character of either kind gives the text
\* between the first such pair, in its own case and with leading and
\* trailing whitespace removed, even when the text also holds 'leak' or
\* 'bearing'; (b) otherwise 'leak' if the lower-cased text holds it; (c)
\* otherwise 'bearing' if it holds it; (d) otherwise the word captured after
\* mention(s)/contain(s)/containing; (e) otherwise the empty string.
C20_KeywordOrder ==
    CalledKeyword
        => IF QuotePairs(call.question) # {}
           THEN call.result = Strip(Inside(call.question, FirstPair(QuotePairs(call.question))))
           ELSE call.result = UnquotedKeyword(call.question)

C20_Witness ==
    /\ CalledKeyword
    /\ call.question = <<"l", "e", "a", "k", " ", "'", "L", "e", "a", "k", "'">>
    /\ call.result = <<"L", "e", "a", "k">>

\* the word that follows the mention verb standing at position k of s, after
\* one optional article that is a word of its own; <<>> without verb or word
WordAfterVerb(s, k) ==
    LET verbs == {v \in MentionVerbs :
                     Boundary(s, k) /\ At(s, k, v) /\ Boundary(s, k + Len(v))}
        e == k + Len(CHOOSE v \in verbs : TRUE)
        p == SkipSpaces(s, e)
        articles == {a \in {<<"a">>, <<"a", "n">>, <<"t", "h", "e">>} :
                        /\ At(s, p, a)
                        /\ p + Len(a) <= Len(s) /\ IsSpace(s[p + Len(a)])
                        /\ KeywordRun(s, SkipSpaces(s, p + Len(a))) # <<>>}
    IN  IF verbs = {} THEN <<>>
        ELSE IF e > Len(s) \/ ~IsSpace(s[e]) THEN <<>>
        ELSE IF articles # {}
        THEN KeywordRun(s, SkipSpaces(s, p + Len(CHOOSE a \in articles : TRUE)))
        ELSE KeywordRun(s, p)

CompleteWord(q) ==
    LET ql == Lower(q)
        found == {k \in 1..Len(ql) : WordAfterVerb(ql, k) # <<>>}
    IN  IF found = {} THEN <<>> ELSE WordAfterVerb(ql, Leftmost(found))

\* C21 as stated: for a text without quoted text, 'leak' or 'bearing',
\* extract_mention_keyword returns the complete word following the mention
\* verb, after one optional article standing as a separate word, never a
\* proper suffix of it; without such a word it returns the empty string, for
\* which count_mentions gives 0.
C21_CompleteWord ==
    (/\ CalledKeyword
     /\ QuotePairs(call.question) = {}
     /\ ~Contains(LeakWord, Lower(call.question))
     /\ ~Contains(BearingWord, Lower(call.question)))
        => /\ call.result = CompleteWord(call.question)
           /\ call.result = <<>>
                 => count_mentions(build_work_orders(SampleLog), call.result, NoFilters) = 0

-----------------------------------------------------------------------------
(* SpecShape: top_technicians and count_distinct_technicians called on      *)
(* incident tables with and without the technicians column.  A table that   *)
(* lacks a column is a sequence of rows without that field.                 *)

\* DataFrame.drop(columns=[col])
DropColumn(df, col) ==
    [i \in 1..Len(df) |-> [c \in (DOMAIN df[i]) \ {col} |-> df[i][c]]]

\* col in df.columns, for a table with rows
HasColumn(df, col) == \A i \in 1..Len(df) : col \in DOMAIN df[i]

\* the outcome of top_technicians(wo, n, f): the empty result for an empty
\* filtered set, ValueError when the technicians column is absent, else the
\* ranking
top_technicians_outcome(wo, n, f) ==
    LET df == filter_work_orders(wo, f)
    IN  IF df = <<>> THEN Returned(<<>>)
        ELSE IF ~HasColumn(df, "technicians") THEN Raised("ValueError")
        ELSE Returned(top_technicians(wo, n, f))

\* the outcome of count_distinct_technicians(wo, f)
count_distinct_technicians_outcome(wo, f) ==
    LET df == filter_work_orders(wo, f)
    IN  IF df = <<>> THEN Returned(0)
        ELSE IF ~HasColumn(df, "technicians") THEN Raised("ValueError")
        ELSE Returned(count_distinct_technicians(wo, f))

InitShape ==
    /\ events = <<>>
    /\ \E t \in TablesOf(KindsT, MaxRowsT) :
          work_orders \in {t, DropColumn(t, "technicians")}
    /\ app = NoApp
    /\ call = NoCall
    /\ pc = "ready"

CallTopTechniciansOn ==
    /\ pc = "ready"
    /\ \E f \in FiltersA, n \in 0..MaxN :
          call' = [fn |-> "top_technicians", f |-> f, n |-> n, keyword |-> <<>>,
                   result |-> top_technicians_outcome(work_orders, n, f)]
    /\ pc' = "returned"
    /\ UNCHANGED <<events, work_orders, app>>

CallCountDistinctTechniciansOn ==
    /\ pc = "ready"
    /\ \E f \in FiltersA :
          call' = [fn |-> "count_distinct_technicians", f |-> f, n |-> 0,
                   keyword |-> <<>>,
                   result |-> count_distinct_technicians_outcome(work_orders, f)]
    /\ pc' = "returned"
    /\ UNCHANGED <<events, work_orders, app>>

NextShape == CallTopTechniciansOn \/ CallCountDistinctTechniciansOn \/ Return

SpecShape == InitShape /\ [][NextShape]_vars

\* C23 as stated: on an incident table that lacks the technicians field,
\* top_technicians and count_distinct_technicians raise a data-shape error,
\* whatever the Filter, and never return a result.
C23_ShapeError ==
    (/\ pc = "returned"
     /\ call.fn \in {"top_technicians", "count_distinct_technicians"}
     /\ work_orders # <<>>
     /\ ~HasColumn(work_orders, "technicians"))
        => call.result = Raised("ValueError")

-----------------------------------------------------------------------------
(* retrieval.py: keyword search over the incident table *)

\* str.replace(r"\s+", " ", regex=True): every run of whitespace becomes one
\* space
RECURSIVE CollapseSpaces(_)
CollapseSpaces(s) ==
    IF s = <<>> THEN <<>>
    ELSE IF IsSpace(s[1])
    THEN <<" ">> \o CollapseSpaces(SubSeq(s, SkipSpaces(s, 1), Len(s)))
    ELSE <<s[1]>> \o CollapseSpaces(Tail(s))

\* build_search_text, for one row
build_search_text(r) ==
    Strip(CollapseSpaces(Lower(
        Strip(r.equipment_id) \o <<" ">> \o Strip(r.product_line) \o <<" ">> \o
        Strip(r.symptom_code) \o <<"\n">> \o Strip(r.description) \o <<"\n">> \o
        Strip(r.comments))))

\* a character of the class [a-z0-9]
IsTokenChar(c) ==
    /\ c \in DOMAIN Ord
    /\ \/ Ord[c] >= Ord["a"] /\ Ord[c] <= Ord["z"]
       \/ Ord[c] >= Ord["0"] /\ Ord[c] <= Ord["9"]

\* _WORD_RE.findall(s) of a lower-cased s: the maximal runs of [a-z0-9]
RECURSIVE FindAllWords(_)
FindAllWords(s) ==
    LET starts == {i \in 1..Len(s) : IsTokenChar(s[i])}
        b == Leftmost(starts)
        e == Leftmost({i \in b..(Len(s) + 1) : i = Len(s) + 1 \/ ~IsTokenChar(s[i])})
    IN  IF starts = {} THEN <<>>
        ELSE <<SubSeq(s, b, e - 1)>> \o FindAllWords(SubSeq(s, e, Len(s)))

_tokenize(text) == FindAllWords(Lower(text))

_score_text(doc_text, query_tokens, query_phrase) ==
    2 * Cardinality({tok \in Range(query_tokens) : tok # <<>> /\ Contains(tok, doc_text)})
      + (IF query_phrase # <<>> /\ Contains(query_phrase, doc_text) THEN 5 ELSE 0)

SnippetWindow == 120

\* doc_text.find(tok): the first position (from 0) of tok, or -1
Find(doc_text, tok) ==
    LET at == {i \in 0..(Len(doc_text) - Len(tok)) :
                  SubSeq(doc_text, i + 1, i + Len(tok)) = tok}
    IN  IF at = {} THEN -1 ELSE Leftmost(at)

_make_snippet(doc_text, query_tokens) ==
    LET found == {i \in 1..Len(query_tokens) : Find(doc_text, query_tokens[i]) # -1}
        pos == Find(doc_text, query_tokens[Leftmost(found)])
        start == IF pos - SnippetWindow > 0 THEN pos - SnippetWindow ELSE 0
        end == IF pos + SnippetWindow < Len(doc_text) THEN pos + SnippetWindow
               ELSE Len(doc_text)
    IN  IF found = {}
        THEN Strip(SubSeq(doc_text, 1, IF 2 * SnippetWindow < Len(doc_text)
                                       THEN 2 * SnippetWindow ELSE Len(doc_text)))
        ELSE Strip(SubSeq(doc_text, start + 1, end))

\* sort_values(["score", "start_ts"], ascending=[False, False]); rows with
\* equal keys keep their order
ScoreDescStartDesc(a, b) ==
    \/ a.score > b.score
    \/ a.score = b.score /\ a.start_ts > b.start_ts
    \/ a.score = b.score /\ a.start_ts = b.start_ts /\ a.work_order_id < b.work_order_id

\* mutant: with an equipment filter one token hit is always enough
search_work_orders_low_threshold(wo, query, k, f) ==
    LET df == filter_work_orders(wo, f)
        q == Lower(Strip(query))
        all_tokens == _tokenize(q)
        NotEq(t) == t # Lower(f.equipment_id[1])
        query_tokens == IF Truthy(f.equipment_id) THEN SelectSeq(all_tokens, NotEq)
                        ELSE all_tokens
        scored == [i \in 1..Len(df) |->
                      [work_order_id |-> df[i].work_order_id,
                       equipment_id |-> df[i].equipment_id,
                       symptom_code |-> df[i].symptom_code,
                       start_ts |-> df[i].start_ts,
                       score |-> _score_text(build_search_text(df[i]), query_tokens, q),
                       snippet |-> _make_snippet(build_search_text(df[i]), query_tokens)]]
        min_score == IF Cardinality(Range(query_tokens)) >= 2 /\ ~Truthy(f.equipment_id)
                     THEN 4 ELSE 2
        Enough(r) == r.score >= min_score
        ranked == SortSeq(SelectSeq(scored, Enough), ScoreDescStartDesc)
    IN  IF df = <<>> THEN Returned(<<>>)
        ELSE IF all_tokens = <<>> THEN Raised("ValueError")
        ELSE IF k # None THEN Returned(Head_n(ranked, k[1]))
        ELSE Returned(ranked)

\* k is None or Some(n)
search_work_orders(wo, query, k, f) ==
    LET df == filter_work_orders(wo, f)
        q == Lower(Strip(query))
        all_tokens == _tokenize(q)
        NotEq(t) == t # Lower(f.equipment_id[1])
        query_tokens == IF Truthy(f.equipment_id) THEN SelectSeq(all_tokens, NotEq)
                        ELSE all_tokens
        scored == [i \in 1..Len(df) |->
                      [work_order_id |-> df[i].work_order_id,
                       equipment_id |-> df[i].equipment_id,
                       symptom_code |-> df[i].symptom_code,
                       start_ts |-> df[i].start_ts,
                       score |-> _score_text(build_search_text(df[i]), query_tokens, q),
                       snippet |-> _make_snippet(build_search_text(df[i]), query_tokens)]]
        min_score == IF Cardinality(Range(query_tokens)) >= 2 THEN 4 ELSE 2
        Enough(r) == r.score >= min_score
        ranked == SortSeq(SelectSeq(scored, Enough), ScoreDescStartDesc)
    IN  IF df = <<>> THEN Returned(<<>>)
        ELSE IF all_tokens = <<>> THEN Raised("ValueError")
        ELSE IF k # None THEN Returned(Head_n(ranked, k[1]))
        ELSE Returned(ranked)

-----------------------------------------------------------------------------
(* SpecSearch: search_work_orders applied to every table, query, k and     *)
(* equipment filter of the bounded domain.                                 *)

MaxRowsR == 2
MaxFragsR == 2

KindsR ==
    {Row(0, E1, P1, HydraulicLeak, 1, <<"l", "e", "a", "k">>, <<>>, <<>>, 1),
     Row(0, E2, P1, S1, 2, <<"H", "y", "d", "r", "a", "u", "l", "i", "c", " ", " ", "l", "e", "a", "k">>, <<>>, <<"e", "1", " ", "o", "k">>, 1),
     Row(0, E1, P1, S1, 2, <<"o", "i", "l", " ", "l", "e", "a", "k">>, <<>>, <<>>, 1)}

FragmentsR ==
    {<<"E", "1">>,
     <<"l", "e", "a", "k">>,
     <<"h", "y", "d", "r", "a", "u", "l", "i", "c">>,
     <<"-">>}

FiltersR ==
    {NoFilters, [NoFilters EXCEPT !.equipment_id = Some(E1)],
     [NoFilters EXCEPT !.equipment_id = Some(E2)]}

InitSearch ==
    /\ events = <<>>
    /\ work_orders \in TablesOf(KindsR, MaxRowsR)
    /\ app = NoApp
    /\ call = NoCall
    /\ pc = "ready"

CallSearchWorkOrders ==
    /\ pc = "ready"
    /\ \E query \in TextsOf(FragmentsR, MaxFragsR), k \in {None, Some(1)}, f \in FiltersR :
          call' = [fn |-> "search_work_orders", query |-> query, k |-> k, f |-> f,
                   result |-> search_work_orders(work_orders, query, k, f)]
    /\ pc' = "returned"
    /\ UNCHANGED <<events, work_orders, app>>

NextSearch == CallSearchWorkOrders \/ Return

SpecSearch == InitSearch /\ [][NextSearch]_vars

ReturnedIds(res) == {res.value[i].work_order_id : i \in 1..Len(res.value)}

\* C24: when search_work_orders with an equipment filter and k = None
\* returns, every returned row is an incident of that equipment with a score
\* greater than 0, and when the same query without the filter returns too,
\* the work_order_ids returned with the filter are among those returned
\* without it.
C24_FilteredSubset ==
    (/\ pc = "returned"
     /\ call.fn = "search_work_orders"
     /\ call.k = None
     /\ Truthy(call.f.equipment_id)
     /\ ~call.result.raised)
        => /\ \A i \in 1..Len(call.result.value) :
                 /\ call.result.value[i].equipment_id = call.f.equipment_id[1]
                 /\ call.result.value[i].score > 0
           /\ \A unfiltered \in {search_work_orders(work_orders, call.query, None, NoFilters)} :
                 ~unfiltered.raised => ReturnedIds(call.result) \subseteq ReturnedIds(unfiltered)

C24_Witness ==
    /\ pc = "returned"
    /\ call.fn = "search_work_orders"
    /\ call.k = None
    /\ call.f.equipment_id = Some(E1)
    /\ call.query = <<"E", "1", " ", "l", "e", "a", "k">>
    /\ Len(work_orders) = 2
    /\ work_orders[1].equipment_id = E2
    /\ work_orders[2].equipment_id = E1
    /\ ~call.result.raised
    /\ ReturnedIds(call.result) = {2}
    /\ call.result.value[1].score = 2
    /\ ReturnedIds(search_work_orders(work_orders, call.query, None, NoFilters)) = {1, 2}

=============================================================================
